---- MODULE Spec2Model ----
(***************************************************************************)
(* Model of the email phishing assessment pipeline: the trigger-weighted   *)
(* aggregator (phishingtool/scoring.py), the weighted-component aggregator *)
(* (phishingtool/score_calculator.py), the header mismatch indicators      *)
(* (phishingtool/parser.py, phishingtool/analyzer.py), the cached DNS      *)
(* checks and the parallel URL batch (score_backend/url_analyzer.py).      *)
(***************************************************************************)
EXTENDS Integers, Sequences, FiniteSets, TLC

VARIABLES
    all_results,        \* scoring.calculate_risk_score: the detector flags passed in
    risk_result,        \* scoring.calculate_risk_score: the returned dict, or NoResult
    failing_module,     \* the module whose call raises an unexpected exception, or "none"
    main_result,        \* main: the returned report, or the exception that left it
    email,              \* the message under assessment: its address headers
    providers,          \* what the two external score providers do when called
    assessment,         \* calculate_comprehensive_phishing_score: the returned dict
    parser_metadata,    \* parser.extract_metadata: the returned dict
    analyzer_metadata,  \* analyzer.extract_metadata: the returned dict
    url_security,       \* per thread: the local variables of its calculate_url_security_score call
    dns_cache,          \* _dns_cache of url_analyzer and of security_check
    cache_lock,         \* url_analyzer._cache_lock: the thread holding it, or NoThread
    pc,                 \* per thread: its position in the DNS check it is running
    frame,              \* per thread: the local variables of that DNS check
    first_return,       \* history: per cache key, the value the first returned call gave
    calls_made,         \* history: the number of DNS checks called so far
    urls,               \* analyze_urls_parallel: the list passed in
    batch_pc,           \* analyze_urls_parallel: the position of the calling thread
    futures,            \* analyze_urls_parallel: per submitted URL, its future
    yielded,            \* analyze_urls_parallel: the futures as_completed has yielded
    reports,            \* analyze_urls_parallel: the list of reports built so far
    task,               \* per thread: the local variables of its analyze_url call
    attachment,         \* analyze_attachment: the filename, MIME type and size passed in
    attachment_result,  \* analyze_attachment: the returned dict
    check_results,      \* attachment_analyzer.calculate_risk_score: the five flags passed in
    attachment_risk,    \* attachment_analyzer.calculate_risk_score: the returned score and its verdict
    resolver,           \* the DNS: the outcome of each query, or any
    run,                \* the number of the call of analyze_urls_parallel on the list
    first_outcome,      \* what the first call on the list gave its caller
    clock,              \* the current second
    upload,             \* per request: the filename and the body of the uploaded message
    req_pc,             \* per request: its position in analyze_email_route
    temp_path,          \* per request: the path of its temporary file
    files,              \* the upload folder: the content of each path
    loaded,             \* per request: the contents it read from its temporary file
    response,           \* per request: the status of its response, 0 before it
    parsed_data,        \* main: the dict analyze_email returned, as the calls made so far left it
    module_results,     \* main: per module, the result of its run_* call, or NoResult
    risk_report,        \* main: the dict calculate_risk_score returned, or NoResult
    authentication_results,\* the Authentication-Results header of the message, or None
    auth_flags,         \* run_auth_checks on what parser.parse_authentication read, or NoResult
    auth_evaluation,    \* evaluate_authentication on what parse_authentication_results read, or NoResult
    attachment_flags,   \* run_attachment_checks on the attachment: the returned dict, or NoResult
    scored,             \* the values the twelve calculators returned, in hundredths
    overall             \* the overall score and risk level made from them, or NoResult

scoringVars == <<all_results, risk_result, failing_module, main_result>>
weightedVars == <<email, providers, assessment, parser_metadata,
                  analyzer_metadata, url_security>>

dnsVars == <<dns_cache, cache_lock, pc, frame, first_return, calls_made>>

batchVars == <<urls, batch_pc, futures, yielded, reports, task>>

attachmentVars == <<attachment, attachment_result, check_results, attachment_risk>>

rerunVars == <<resolver, run, first_outcome>>

uploadVars == <<clock, upload, req_pc, temp_path, files, loaded, response>>

detectorVars == <<parsed_data, module_results, risk_report>>

authVars == <<authentication_results, auth_flags, auth_evaluation>>

attachmentChecksVars == <<attachment_flags>>

overallVars == <<scored, overall>>

vars == <<all_results, risk_result, failing_module, main_result, email, providers, assessment,
          parser_metadata, analyzer_metadata, url_security, dns_cache, cache_lock, pc, frame,
          first_return, calls_made, urls, batch_pc, futures, yielded, reports,
          task,
          attachment, attachment_result, check_results, attachment_risk,
          resolver, run, first_outcome,
          clock, upload, req_pc, temp_path, files, loaded, response,
          parsed_data, module_results, risk_report,
          authentication_results, auth_flags, auth_evaluation,
          attachment_flags,
          scored, overall>>

\* The value of a result variable before the call has returned.
NoResult == [returned |-> FALSE]

Min(a, b) == IF a <= b THEN a ELSE b

(***************************************************************************)
(* Trigger-weighted scheme: phishingtool/scoring.py                        *)
(***************************************************************************)

\* The flags read by calculate_risk_score, in the order of its if statements.
\* The nested dicts all_results["authentication"]["spf_fail"] ... are flattened:
\* each flag name occurs in exactly one module dict.
TriggerOrder ==
    << "spf_fail", "dkim_fail", "dmarc_fail", "domain_suspicious",
       "url_suspicious", "attachment_suspicious", "infrastructure_suspicious",
       "header_suspicious", "timing_suspicious", "suspicious_encoding" >>

FlagNames == { TriggerOrder[i] : i \in 1..Len(TriggerOrder) }

\* WEIGHTS with the DMARC weight set to the SPF/DKIM weight: a faulty variant the sum property must reject.
WEIGHTS_DmarcAsSpf ==
    [ spf_fail |-> 15, dkim_fail |-> 15, dmarc_fail |-> 15,
      domain_suspicious |-> 15, url_suspicious |-> 15,
      attachment_suspicious |-> 20, infrastructure_suspicious |-> 10,
      header_suspicious |-> 10, timing_suspicious |-> 10,
      suspicious_encoding |-> 5 ]

WEIGHTS ==
    [ spf_fail |-> 15, dkim_fail |-> 15, dmarc_fail |-> 20,
      domain_suspicious |-> 15, url_suspicious |-> 15,
      attachment_suspicious |-> 20, infrastructure_suspicious |-> 10,
      header_suspicious |-> 10, timing_suspicious |-> 10,
      suspicious_encoding |-> 5 ]

\* The string appended to `triggered` by the if statement of each flag.
TriggerLabel ==
    [ spf_fail |-> "SPF fail", dkim_fail |-> "DKIM fail",
      dmarc_fail |-> "DMARC fail", domain_suspicious |-> "Domain anomaly",
      url_suspicious |-> "Suspicious URL",
      attachment_suspicious |-> "Malicious attachment",
      infrastructure_suspicious |-> "Infrastructure anomaly",
      header_suspicious |-> "Header anomaly",
      timing_suspicious |-> "Timing anomaly",
      suspicious_encoding |-> "Suspicious encoding" ]

\* The state (score, triggered) after the first i if statements have run.
RECURSIVE EvaluateTriggers(_, _)
EvaluateTriggers(r, i) ==
    IF i = 0
    THEN [score |-> 0, triggered |-> << >>]
    ELSE LET prev == EvaluateTriggers(r, i - 1)
             flag == TriggerOrder[i]
         IN  IF r[flag]
             THEN [score |-> prev.score + WEIGHTS[flag],
                   triggered |-> Append(prev.triggered, TriggerLabel[flag])]
             ELSE prev

\* CapScore with the cap forgotten: a faulty variant the range property must reject.
CapScore_NoCap(score) == score

\* score = min(score, 100)
CapScore(score) == Min(score, 100)

VerdictOf(score) ==
    IF score >= 70 THEN "PHISHING"
    ELSE IF score >= 40 THEN "SUSPICIOUS"
    ELSE "SAFE"

calculate_risk_score(r) ==
    LET acc   == EvaluateTriggers(r, Len(TriggerOrder))
        score == CapScore(acc.score)
    IN  [score |-> score, verdict |-> VerdictOf(score), triggers |-> acc.triggered]

(***************************************************************************)
(* Python values.  A str is the sequence of its characters; None, True and *)
(* False are one-element sequences holding a token that is no character,   *)
(* so that every value a dict entry can take is a sequence.                *)
(***************************************************************************)
PyNone == << "None" >>
PyTrue == << "True" >>
PyFalse == << "False" >>

PyBool(b) == IF b THEN PyTrue ELSE PyFalse

\* Python truthiness of None, a bool or a str.
Truthy(v) == v \notin { PyNone, PyFalse, << >> }

\* Python's  a and b and c  for already evaluated operands; c is a bool.
PyAnd3(a, b, c) == IF ~Truthy(a) THEN a ELSE IF ~Truthy(b) THEN b ELSE PyBool(c)

Contains(s, c) == \E i \in 1..Len(s) : s[i] = c

IndexOfLast(s, c) ==
    IF Contains(s, c) THEN CHOOSE i \in 1..Len(s) :
                               s[i] = c /\ \A k \in (i+1)..Len(s) : s[k] # c
    ELSE 0

IndexOfFirst(s, c) ==
    IF Contains(s, c) THEN CHOOSE i \in 1..Len(s) :
                               s[i] = c /\ \A k \in 1..(i-1) : s[k] # c
    ELSE 0

\* s.split(c)[-1]
AfterLast(s, c) == SubSeq(s, IndexOfLast(s, c) + 1, Len(s))

\* s.replace(c, "")
Without(s, c) == SelectSeq(s, LAMBDA x : x # c)

\* s.strip()
RECURSIVE Strip(_)
Strip(s) ==
    IF s = << >> THEN s
    ELSE IF Head(s) = " " THEN Strip(Tail(s))
    ELSE IF s[Len(s)] = " " THEN Strip(SubSeq(s, 1, Len(s) - 1))
    ELSE s

\* s.endswith(suffix)
EndsWith(s, suffix) ==
    /\ Len(suffix) <= Len(s)
    /\ SubSeq(s, Len(s) - Len(suffix) + 1, Len(s)) = suffix

\* pattern in s
HasSubstring(s, pattern) ==
    \E i \in 1..(Len(s) - Len(pattern) + 1) :
        SubSeq(s, i, i + Len(pattern) - 1) = pattern

LowerChar(c) ==
    IF c = "A" THEN "a" ELSE IF c = "B" THEN "b"
    ELSE IF c = "C" THEN "c" ELSE IF c = "D" THEN "d"
    ELSE IF c = "E" THEN "e" ELSE IF c = "M" THEN "m"
    ELSE IF c = "F" THEN "f" ELSE IF c = "O" THEN "o"
    ELSE IF c = "P" THEN "p" ELSE IF c = "R" THEN "r"
    ELSE IF c = "U" THEN "u"
    ELSE IF c = "X" THEN "x" ELSE IF c = "Y" THEN "y" ELSE c

\* s.lower()
Lower(s) == [i \in 1..Len(s) |-> LowerChar(s[i])]

(***************************************************************************)
(* phishingtool/parser.py: derived domains and mismatch flags              *)
(***************************************************************************)

\* email.utils.parseaddr(address)[1] for the two shapes used here:
\* "name <addr>" and a bare "addr".
parseaddr(address) ==
    LET lt == IndexOfFirst(address, "<")
        gt == IndexOfLast(address, ">")
    IN  IF lt > 0 /\ gt > lt THEN SubSeq(address, lt + 1, gt - 1)
        ELSE Strip(address)

parser_extract_domain(address) ==
    IF ~Truthy(address) THEN PyNone
    ELSE LET email_addr == parseaddr(address)
         IN  IF Contains(email_addr, "@")
             THEN Strip(Lower(AfterLast(email_addr, "@")))
             ELSE PyNone

extract_message_id_domain(message_id) ==
    IF Truthy(message_id) /\ Contains(message_id, "@")
    THEN Lower(Strip(Without(AfterLast(message_id, "@"), ">")))
    ELSE PyNone

\* The derived domains and the three mismatch flags of extract_metadata.
\* The dict extract_metadata builds from the four domains it has extracted.
DomainMetadata(from_domain, reply_to_domain, return_path_domain, message_id_domain) ==
        [ returned |-> TRUE,
          from_domain |-> from_domain,
          reply_to_domain |-> reply_to_domain,
          return_path_domain |-> return_path_domain,
          message_id_domain |-> message_id_domain,
          reply_to_mismatch |->
              PyAnd3(reply_to_domain, from_domain, reply_to_domain # from_domain),
          return_path_mismatch |->
              PyAnd3(return_path_domain, from_domain,
                     return_path_domain # from_domain),
          message_id_mismatch |->
              PyAnd3(message_id_domain, from_domain,
                     message_id_domain # from_domain) ]

parser_extract_metadata(msg) ==
    DomainMetadata(parser_extract_domain(msg.From),
                   parser_extract_domain(msg.ReplyTo),
                   parser_extract_domain(msg.ReturnPath),
                   extract_message_id_domain(msg.MessageID))

(***************************************************************************)
(* phishingtool/analyzer.py: the metadata read by the weighted scheme      *)
(***************************************************************************)

analyzer_extract_domain(email_header) ==
    IF Truthy(email_header) /\ Contains(email_header, "@")
    THEN Strip(Without(AfterLast(email_header, "@"), ">"))
    ELSE PyNone

analyzer_extract_metadata(msg) ==
    [ returned |-> TRUE,
      from |-> msg.From, subject |-> msg.Subject, date |-> msg.Date,
      message_id |-> msg.MessageID,
      authentication_results |-> msg.AuthResults,
      received |-> msg.Received,
      x_mailer |-> msg.XMailer,
      from_domain |-> analyzer_extract_domain(msg.From),
      return_path_domain |-> analyzer_extract_domain(msg.ReturnPath),
      reply_to_mismatch |->
          PyBool(msg.ReplyTo # PyNone /\ msg.ReplyTo # msg.From) ]

(***************************************************************************)
(* The IP literals of the headers: parser.extract_origin_ip and            *)
(* phishingtool/infrastructure_analysis.py.  A header is held as what the  *)
(* regular expressions read from it: its IP literals in text order and its *)
(* timestamp in seconds (NoTime when it has none).                         *)
(***************************************************************************)

NoTime == -1

\* ipaddress.ip_address on the literals of the model: the ones it rejects
\* (ValueError) and the ones whose is_private is true.
InvalidLiterals == { "999.1.1.1" }

PrivateLiterals == { "10.0.0.1", "127.0.0.1", "169.254.1.1", "::1", "fe80::1" }

LoopbackLiterals == { "127.0.0.1", "::1" }

\* The literals the IPv4 pattern \b(?:[0-9]{1,3}\.){3}[0-9]{1,3}\b matches;
\* the others of the model are IPv6 literals.
Ipv4Literals == { "8.8.8.8", "1.1.1.1", "10.0.0.1", "127.0.0.1", "169.254.1.1",
                  "999.1.1.1" }

Ipv6Literals == { "2001:4860::8888", "::1", "fe80::1" }

is_private(ip) == ip \in PrivateLiterals

\* re.findall of the IPv4 pattern on one header.
FindIpv4(header) == SelectSeq(header.ips, LAMBDA ip : ip \in Ipv4Literals)

\* re.findall of the IPv6 pattern on one header.
FindIpv6(header) == SelectSeq(header.ips, LAMBDA ip : ip \in Ipv6Literals)

\* The first element of a sequence that is in the set wanted, or None.
FirstIn(s, wanted) ==
    IF \E i \in 1..Len(s) : s[i] \in wanted
    THEN s[CHOOSE i \in 1..Len(s) :
               s[i] \in wanted /\ \A k \in 1..(i-1) : s[k] \notin wanted]
    ELSE "None"

RECURSIVE FlattenIpv4(_)
FlattenIpv4(received_headers) ==
    IF received_headers = << >> THEN << >>
    ELSE FindIpv4(Head(received_headers)) \o FlattenIpv4(Tail(received_headers))

\* parser.extract_origin_ip: the first IPv4 literal, over the headers in
\* order, that ip_address accepts and that is not is_private.
extract_origin_ip(received_headers) ==
    FirstIn(FlattenIpv4(received_headers),
            { ip \in Ipv4Literals : ip \notin InvalidLiterals /\ ~is_private(ip) })

\* The text HH:MM:SS of the timestamp of a header, for the timestamps of the
\* model (seconds after 10:00:00).
TimeLiteral(time) ==
    CASE time = 10 -> "10:00:10"
      [] time = 20 -> "10:00:20"
      [] time = 30 -> "10:00:30"

\* re.findall of the IPv6 pattern (?:[0-9a-fA-F]{0,4}:){2,7}[0-9a-fA-F]{0,4}
\* on one Received header: its IPv6 literals and then the HH:MM:SS of its
\* timestamp, which the pattern matches as well.
FindIpv6Pattern(header) ==
    FindIpv6(header) \o
        (IF header.time = NoTime THEN << >> ELSE << TimeLiteral(header.time) >>)

\* The matches of one Received header: the IPv4 ones, then the IPv6 ones.
RECURSIVE ReceivedMatches(_)
ReceivedMatches(received_headers) ==
    IF received_headers = << >> THEN << >>
    ELSE FindIpv4(Head(received_headers)) \o FindIpv6Pattern(Head(received_headers))
         \o ReceivedMatches(Tail(received_headers))

\* The sequence without the repeats of an element, the first one kept.
RECURSIVE Unique(_)
Unique(ips) ==
    IF ips = << >> THEN << >>
    ELSE LET front == Unique(SubSeq(ips, 1, Len(ips) - 1))
             last  == ips[Len(ips)]
         IN  IF \E i \in 1..Len(front) : front[i] = last THEN front
             ELSE Append(front, last)

\* infrastructure_analysis.extract_ips: the matches of the Received headers,
\* then those of X-Originating-IP (IPv4 before IPv6), without repeats.
extract_ips(received, x_originating_ip) ==
    Unique(ReceivedMatches(received)
           \o SelectSeq(x_originating_ip, LAMBDA ip : ip \in Ipv4Literals)
           \o SelectSeq(x_originating_ip, LAMBDA ip : ip \in Ipv6Literals))

\* The strings ipaddress.ip_address accepts.
ValidLiterals == (Ipv4Literals \cup Ipv6Literals) \ InvalidLiterals

\* infrastructure_analysis.get_first_external_ip
get_first_external_ip(ip_list) ==
    FirstIn(ip_list,
            { ip \in ValidLiterals : ~is_private(ip) /\ ip \notin LoopbackLiterals })

\* infrastructure_analysis.analyze_received_headers
analyze_received_headers(msg) ==
    LET ips == extract_ips(msg.Received, msg.XOriginatingIP)
    IN  [ ips |-> ips, originating_ip |-> get_first_external_ip(ips) ]

(***************************************************************************)
(* Weighted-component scheme: phishingtool/score_calculator.py.            *)
(* Scores are held in hundredths of a point (2.5 is 250), the weights in   *)
(* hundredths (0.08 is 8); the weighted sum is a float.                    *)
(***************************************************************************)

\* An Authentication-Results header is held as its spf, dkim and dmarc tokens
\* in that order, each the name and the result as they are written in the
\* header; the result "" stands for a token the header does not carry, and
\* None is no header.
AuthHeader(spf, dkim, dmarc) ==
    << << "spf", spf >>, << "dkim", dkim >>, << "dmarc", dmarc >> >>

\* str.lower() on the names, results and schemes of the model.
StrLower(text) ==
    CASE text \in { "Fail", "FAIL" } -> "fail"
      [] text \in { "Pass", "PASS" } -> "pass"
      [] text \in { "Spf", "SPF" } -> "spf"
      [] text \in { "Dkim", "DKIM" } -> "dkim"
      [] text \in { "Dmarc", "DMARC" } -> "dmarc"
      [] text \in { "Http", "HTTP" } -> "http"
      [] text \in { "Https", "HTTPS" } -> "https"
      [] OTHER -> text

\* auth_checks.parse_authentication_results: re.search(r"spf=(\w+)", ...,
\* re.IGNORECASE) and group(1).lower(), likewise for dkim and dmarc.
parse_authentication_results(auth_header) ==
    LET result(i) == IF Truthy(auth_header) /\ auth_header[i][2] # ""
                     THEN StrLower(auth_header[i][2]) ELSE "None"
    IN  [spf_result |-> result(1), dkim_result |-> result(2),
         dmarc_result |-> result(3)]

\* auth_checks.evaluate_authentication
evaluate_authentication(auth_data) ==
    [ spf_fail |-> auth_data.spf_result = "fail",
      dkim_fail |-> auth_data.dkim_result = "fail",
      dmarc_fail |-> auth_data.dmarc_result = "fail",
      auth_suspicious |-> \/ auth_data.spf_result = "fail"
                          \/ auth_data.dkim_result = "fail"
                          \/ auth_data.dmarc_result = "fail" ]

\* A faulty variant: the cap of the calculators left out.
CapTen_NoCap(score) == score

\* min(score, 10), in hundredths.
CapTen(score) == Min(score, 1000)

calculate_auth_score(msg) ==
    LET auth_header  == msg.AuthResults
        auth_results == parse_authentication_results(auth_header)
        spf   == IF auth_results.spf_result = "fail" THEN 250
                 ELSE IF auth_results.spf_result = "softfail" THEN 100 ELSE 0
        dkim  == IF auth_results.dkim_result = "fail" THEN 250
                 ELSE IF auth_results.dkim_result = "neutral" THEN 50 ELSE 0
        dmarc == IF auth_results.dmarc_result = "fail" THEN 300
                 ELSE IF auth_results.dmarc_result = "quarantine" THEN 200 ELSE 0
        none  == IF ~Truthy(auth_header) THEN 200 ELSE 0
    IN  CapTen(spf + dkim + dmarc + none)

SUSPICIOUS_TLDS ==
    { << ".", "r", "u" >>, << ".", "t", "k" >>, << ".", "x", "y", "z" >>,
      << ".", "t", "o", "p" >>, << ".", "g", "q" >>, << ".", "m", "l" >>,
      << ".", "c", "f" >> }

has_suspicious_tld(domain) ==
    Truthy(domain) /\ \E tld \in SUSPICIOUS_TLDS : EndsWith(domain, tld)

suspicious_patterns ==
    { << "m", "i", "c", "r", "o", "s", "0", "f", "t" >>,
      << "p", "a", "y", "p", "a", "1" >>,
      << "g", "0", "0", "g", "l", "e" >>,
      << "a", "r", "n", "a", "z", "o", "n" >>,
      << "f", "a", "c", "e", "b", "0", "0", "k" >> }

looks_like_spoofed(domain) ==
    Truthy(domain) /\ \E pattern \in suspicious_patterns :
                          HasSubstring(domain, pattern)

calculate_domain_score(metadata) ==
    LET from_domain        == metadata.from_domain
        return_path_domain == metadata.return_path_domain
        a == IF Truthy(from_domain) /\ has_suspicious_tld(from_domain)
             THEN 200 ELSE 0
        b == IF Truthy(from_domain) /\ looks_like_spoofed(from_domain)
             THEN 250 ELSE 0
        c == IF Truthy(return_path_domain) /\ has_suspicious_tld(return_path_domain)
             THEN 150 ELSE 0
        d == IF Truthy(return_path_domain) /\ looks_like_spoofed(return_path_domain)
             THEN 200 ELSE 0
        e == IF from_domain # return_path_domain THEN 150 ELSE 0
    IN  CapTen(a + b + c + d + e)

calculate_metadata_score(metadata) ==
    LET a == IF Truthy(metadata.reply_to_mismatch) THEN 250 ELSE 0
        b == IF ~Truthy(metadata.authentication_results) THEN 150 ELSE 0
        c == IF Truthy(metadata.x_mailer)
                /\ HasSubstring(Lower(metadata.x_mailer),
                                << "u", "n", "k", "n", "o", "w", "n" >>)
             THEN 100 ELSE 0
        d == IF Truthy(metadata.from_domain) /\ Truthy(metadata.return_path_domain)
                /\ metadata.from_domain # metadata.return_path_domain
             THEN 200 ELSE 0
    IN  CapTen(a + b + c + d)

\* The URLs of the model: plain http and https URLs of one domain, a URL of
\* a lookalike domain, and a URL with an unclosed bracket in its host, which
\* extract_urls yields like any other.
URLs ==
    { "http://a.com/login", "https://a.com/", "https://paypa1.com/",
      "http://[bad" }

\* urllib.parse.urlparse on the URLs of the model: the scheme and the
\* hostname, or ValueError('Invalid IPv6 URL') for a bracket left open.
urlparse(url) ==
    CASE url = "http://a.com/login" ->
             [ raises |-> FALSE, scheme |-> "http", hostname |-> "a.com" ]
      [] url = "https://a.com/" ->
             [ raises |-> FALSE, scheme |-> "https", hostname |-> "a.com" ]
      [] url = "https://paypa1.com/" ->
             [ raises |-> FALSE, scheme |-> "https", hostname |-> "paypa1.com" ]
      [] url = "http://[bad" ->
             [ raises |-> TRUE, scheme |-> "", hostname |-> "" ]
      [] url = "http://paypa1.com/" ->
             [ raises |-> FALSE, scheme |-> "http", hostname |-> "paypa1.com" ]
      [] url = "http://1.2.3.4/" ->
             [ raises |-> FALSE, scheme |-> "http", hostname |-> "1.2.3.4" ]
      [] url = "http://[2001:db8::1]/" ->
             [ raises |-> FALSE, scheme |-> "http", hostname |-> "2001:db8::1" ]
      [] url = "http://login.secure.account.verify.paypa1.com/" ->
             [ raises |-> FALSE, scheme |-> "http",
               hostname |-> "login.secure.account.verify.paypa1.com" ]
      [] url = "https://a1234.xyz/" ->
             [ raises |-> FALSE, scheme |-> "https", hostname |-> "a1234.xyz" ]
      [] url = "https://[::1%aaaaaaaaaaaaaaaaaaaaaaaa.paypa1.com]/" ->
             [ raises |-> FALSE, scheme |-> "https",
               hostname |-> "::1%aaaaaaaaaaaaaaaaaaaaaaaa.paypa1.com" ]
      [] url = "http://[::1%aaaaaaaaaaaaaaaaaaaaaaaa.paypa1.com]/" ->
             [ raises |-> FALSE, scheme |-> "http",
               hostname |-> "::1%aaaaaaaaaaaaaaaaaaaaaaaa.paypa1.com" ]

\* get_domain: (urlparse(url).hostname or "").lower(); it raises what
\* urlparse raises.
get_domain(url) == urlparse(url).hostname

\* url_analyzer.extract_urls on the bodies of the model: the http(s) URLs of
\* the text, in order, without repeats.
extract_urls(text) ==
    CASE text = "" -> << >>
      [] text = "hello" -> << >>
      [] text = "see https://a.com/" -> << "https://a.com/" >>
      [] text = "see http://a.com/login" -> << "http://a.com/login" >>
      [] text = "see http://[bad" -> << "http://[bad" >>
      [] text = "see https://a.com/ and http://a.com/login"
             -> << "https://a.com/", "http://a.com/login" >>

\* url_checks.is_insecure_scheme: False for an empty scheme, otherwise
\* scheme.lower() == "http".
is_insecure_scheme(scheme) == scheme # "" /\ StrLower(scheme) = "http"

\* The increments of calculate_url_score for one URL, in hundredths: the
\* hosts of the model are no IP literals, carry no suspicious TLD and at most
\* three dots, and no URL is longer than 75 characters.
UrlScoreOf(url) == IF is_insecure_scheme(urlparse(url).scheme) THEN 100 ELSE 0

RECURSIVE UrlScoreUpTo(_, _)
UrlScoreUpTo(found, i) ==
    IF i = 0 THEN 0 ELSE UrlScoreUpTo(found, i - 1) + UrlScoreOf(found[i])

\* calculate_url_score: 0 when anything in it raises.
calculate_url_score(email_body) ==
    LET found == extract_urls(email_body)
    IN  IF \E i \in 1..Len(found) : urlparse(found[i]).raises THEN 0
        ELSE Min(UrlScoreUpTo(found, Len(found)), 1000)

\* What a call of an external score provider does: the import of its module
\* fails, the call raises, or it returns a score (in hundredths).
Returns(score) == [ kind |-> "returns", score |-> score ]

Unavailable == [ kind |-> "unavailable", score |-> 0 ]

Raises == [ kind |-> "raises", score |-> 0 ]

\* calculate_url_security_score, the first element of the returned tuple: 0
\* for an empty body, for a body without URLs and when anything inside the
\* try raises (the import, the provider, get_domain on a URL); otherwise the
\* score of get_url_security_score_from_ml as it is.
calculate_url_security_score(email_body, provider) ==
    LET found == extract_urls(email_body)
    IN  IF email_body = "" THEN 0
        ELSE IF provider.kind = "unavailable" THEN 0
        ELSE IF found = << >> THEN 0
        ELSE IF provider.kind = "raises" THEN 0
        ELSE IF \E i \in 1..Len(found) : urlparse(found[i]).raises THEN 0
        ELSE provider.score

\* The three checks calculate_url_security_score calls for each URL, in the
\* order of the calls.
UrlSecurityChecks == << "spf", "dmarc", "dkim" >>

\* calculate_url_security_score, the other elements of the returned tuple:
\* what has_spf, has_dmarc or has_dkim (kind) returns for the domain of each
\* URL of the body, or the empty list where the score is the literal 0.  dns
\* is what the three checks return for the domain of the model's bodies.
url_security_results(email_body, provider, dns, kind) ==
    LET found == extract_urls(email_body)
    IN  IF \/ email_body = ""
           \/ provider.kind # "returns"
           \/ found = << >>
           \/ \E i \in 1..Len(found) : urlparse(found[i]).raises
        THEN << >>
        ELSE [ i \in 1..Len(found) |-> PyBool(dns[kind]) ]

\* The three lists when no check was called.
NoLists == [ k \in { "spf", "dmarc", "dkim" } |-> << >> ]

\* calculate_url_security_score goes on to its loop and calls has_spf for
\* the first URL: the body is not empty, the imports succeed, extract_urls
\* finds a URL, the provider returns and get_domain accepts the URL.
ReachesDnsChecks(email_body, provider) ==
    /\ email_body # ""
    /\ provider.kind = "returns"
    /\ extract_urls(email_body) # << >>
    /\ ~urlparse(extract_urls(email_body)[1]).raises

\* any(results) if results else False
AnyOf(results) == \E i \in 1..Len(results) : Truthy(results[i])

\* A faulty variant: a failing provider counts as the highest score.
calculate_transformer_score_FailClosed(email_body, provider) ==
    IF email_body = "" THEN 0
    ELSE IF provider.kind # "returns" THEN 1000
    ELSE Min(provider.score, 1000)

\* calculate_transformer_score: 0 for an empty body and when the import or
\* get_transformer_score raises; otherwise min(score, 10).
calculate_transformer_score(email_body, provider) ==
    IF email_body = "" THEN 0
    ELSE IF provider.kind # "returns" THEN 0
    ELSE Min(provider.score, 1000)

\* os.path.splitext(name)[1] for a name without a path separator: the text
\* from the last dot on, unless only dots come before that dot.
splitext(name) ==
    LET dot == IndexOfLast(name, ".")
    IN  IF dot > 0 /\ \E k \in 1..(dot - 1) : name[k] # "."
        THEN SubSeq(name, dot, Len(name))
        ELSE << >>

\* len(name.split("."))
SplitCount(name) == Len(SelectSeq(name, LAMBDA c : c = ".")) + 1

EXECUTABLE_EXTENSIONS ==
    { << ".", "e", "x", "e" >>, << ".", "b", "a", "t" >>,
      << ".", "c", "m", "d" >>, << ".", "s", "c", "r" >>,
      << ".", "j", "s" >>, << ".", "v", "b", "s" >>,
      << ".", "p", "s", "1" >> }

MACRO_EXTENSIONS ==
    { << ".", "d", "o", "c", "m" >>, << ".", "x", "l", "s", "m" >>,
      << ".", "p", "p", "t", "m" >> }

\* attachment_checks.get_extension
get_extension(filename) ==
    IF ~Truthy(filename) THEN PyNone ELSE splitext(Lower(filename))

\* attachment_checks.has_double_extension
has_double_extension(filename) ==
    IF ~Truthy(filename) THEN FALSE ELSE SplitCount(filename) > 2

is_executable(ext) == ext \in EXECUTABLE_EXTENSIONS

has_macro(ext) == ext \in MACRO_EXTENSIONS

\* The names attachment_checks.py defines.
attachment_checks_names ==
    { "EXECUTABLE_EXTENSIONS", "MACRO_EXTENSIONS", "get_extension",
      "has_double_extension", "is_executable", "has_macro",
      "run_attachment_checks" }

\* The names calculate_attachment_score imports from attachment_checks as
\* the first statement of its try.
attachment_score_imports ==
    { "get_extension", "has_double_extension", "is_executable",
      "is_macro_enabled", "is_archive" }

\* The increments of the loop of calculate_attachment_score for one part, in
\* hundredths, with the two checks the import can resolve; a part without a
\* filename is skipped.
AttachmentIncrements(filename) ==
    IF ~Truthy(filename) THEN 0
    ELSE (IF has_double_extension(filename) THEN 200 ELSE 0)
         + (IF Truthy(get_extension(filename))
               /\ is_executable(get_extension(filename)) THEN 300 ELSE 0)

RECURSIVE AttachmentSumUpTo(_, _)
AttachmentSumUpTo(parts, i) ==
    IF i = 0 THEN 0
    ELSE AttachmentSumUpTo(parts, i - 1) + AttachmentIncrements(parts[i])

\* calculate_attachment_score: the import raises ImportError for a name
\* attachment_checks does not define, before the loop over the parts, and
\* `except Exception` returns 0.
calculate_attachment_score(msg) ==
    IF ~(attachment_score_imports \subseteq attachment_checks_names) THEN 0
    ELSE CapTen(AttachmentSumUpTo(msg.Attachments, Len(msg.Attachments)))

(***************************************************************************)
(* Python floats: the binary64 arithmetic of the overall_score expression. *)
(* A natural number is held as its digits to the base 2^15, the lowest     *)
(* first and the highest not 0; a non-negative float is held as the pair   *)
(* m, e of its value m * 2^e, m a natural number of at most 54 bits.       *)
(***************************************************************************)

LimbBase == 32768

LimbBits == 15

\* The binary64 significand: 53 bits.
MantissaBits == 53

\* The digit i of a, 0 beyond its ends.
Limb(a, i) == IF i >= 1 /\ i <= Len(a) THEN a[i] ELSE 0

\* a without its leading zero digits.
Trim(a) ==
    LET used == { i \in 1..Len(a) : a[i] # 0 }
    IN  IF used = {} THEN << >>
        ELSE SubSeq(a, 1, CHOOSE i \in used : \A j \in used : j <= i)

RECURSIVE AddLimbs(_, _, _, _)
AddLimbs(a, b, i, carry) ==
    IF i > Len(a) /\ i > Len(b)
    THEN IF carry = 0 THEN << >> ELSE << carry >>
    ELSE LET s == Limb(a, i) + Limb(b, i) + carry
         IN  << s % LimbBase >> \o AddLimbs(a, b, i + 1, s \div LimbBase)

\* a + b
BigAdd(a, b) == AddLimbs(a, b, 1, 0)

RECURSIVE MulLimbs(_, _, _, _)
MulLimbs(a, k, i, carry) ==
    IF i > Len(a)
    THEN IF carry = 0 THEN << >> ELSE << carry >>
    ELSE LET s == a[i] * k + carry
         IN  << s % LimbBase >> \o MulLimbs(a, k, i + 1, s \div LimbBase)

\* a * k for a number k below the base.
BigMulSmall(a, k) == Trim(MulLimbs(a, k, 1, 0))

RECURSIVE MulFrom(_, _, _)
MulFrom(a, b, j) ==
    IF j > Len(b) THEN << >>
    ELSE BigAdd([ i \in 1..(j - 1) |-> 0 ] \o MulLimbs(a, b[j], 1, 0),
                MulFrom(a, b, j + 1))

\* a * b
BigMul(a, b) == Trim(MulFrom(a, b, 1))

RECURSIVE DivLimbs(_, _, _, _)
DivLimbs(a, d, i, rem) ==
    IF i = 0 THEN [ q |-> << >>, r |-> rem ]
    ELSE LET cur  == rem * LimbBase + a[i]
             rest == DivLimbs(a, d, i - 1, cur % d)
         IN  [ q |-> Append(rest.q, cur \div d), r |-> rest.r ]

\* The quotient and the remainder of a by a number d of at most 16 bits.
BigDivSmall(a, d) ==
    LET res == DivLimbs(a, d, Len(a), 0)
    IN  [ q |-> Trim(res.q), r |-> res.r ]

\* The number of bits of a digit.
RECURSIVE LimbLength(_)
LimbLength(x) == IF x = 0 THEN 0 ELSE 1 + LimbLength(x \div 2)

\* The number of bits of a.
BitLength(a) ==
    IF a = << >> THEN 0 ELSE LimbBits * (Len(a) - 1) + LimbLength(a[Len(a)])

\* The bit k of a, bit 0 being the lowest.
Bit(a, k) == (Limb(a, k \div LimbBits + 1) \div 2^(k % LimbBits)) % 2

\* Some bit of a below bit k is 1.
AnyBitBelow(a, k) ==
    \/ \E i \in 1..(k \div LimbBits) : Limb(a, i) # 0
    \/ Limb(a, k \div LimbBits + 1) % 2^(k % LimbBits) # 0

\* a * 2^n
ShiftLeft(a, n) ==
    LET q == n \div LimbBits
        r == n % LimbBits
    IN  IF n = 0 THEN a
        ELSE Trim([ i \in 1..(Len(a) + q + 1) |->
                      (Limb(a, i - q) % 2^(LimbBits - r)) * 2^r
                      + Limb(a, i - q - 1) \div 2^(LimbBits - r) ])

\* a \div 2^n
ShiftRight(a, n) ==
    LET q == n \div LimbBits
        r == n % LimbBits
    IN  IF Len(a) <= q THEN << >>
        ELSE Trim([ i \in 1..(Len(a) - q) |->
                      Limb(a, i + q) \div 2^r
                      + (Limb(a, i + q + 1) % 2^r) * 2^(LimbBits - r) ])

\* a \div 2^n rounded to the nearest number, a tie to the even one.
ShiftRightRounded(a, n) ==
    LET q  == ShiftRight(a, n)
        up == /\ n > 0
              /\ Bit(a, n - 1) = 1
              /\ (AnyBitBelow(a, n - 1) \/ Bit(a, n) = 1)
    IN  IF up THEN BigAdd(q, << 1 >>) ELSE q

\* a < b
BigLess(a, b) ==
    \/ Len(a) < Len(b)
    \/ /\ Len(a) = Len(b)
       /\ \E i \in 1..Len(a) :
              /\ a[i] < b[i]
              /\ \A j \in (i + 1)..Len(a) : a[j] = b[j]

\* The value of a number of at most two digits.
BigValue(a) == Limb(a, 1) + Limb(a, 2) * LimbBase

FloatZero == [ m |-> << >>, e |-> 0 ]

\* The float nearest to m * 2^e, a tie to the one with the even significand.
RoundToFloat(m, e) ==
    LET extra == BitLength(m) - MantissaBits
    IN  IF extra <= 0 THEN [ m |-> m, e |-> e ]
        ELSE [ m |-> ShiftRightRounded(m, extra), e |-> e + extra ]

\* The float of a decimal literal of k hundredths (0.08 is FloatOf(8), 2.5
\* is FloatOf(250)): the float nearest to k / 100.  The quotient of k * 2^70
\* by 100 has more than 53 bits; a last bit is added to it for a remainder.
FloatOf(k) ==
    IF k = 0 THEN FloatZero
    ELSE LET d == BigDivSmall(ShiftLeft(<< k >>, 70), 100)
             sticky == IF d.r = 0 THEN << >> ELSE << 1 >>
         IN  RoundToFloat(BigAdd(ShiftLeft(d.q, 1), sticky), -71)

\* x * y
FloatMul(x, y) ==
    IF x.m = << >> \/ y.m = << >> THEN FloatZero
    ELSE RoundToFloat(BigMul(x.m, y.m), x.e + y.e)

\* x + y
FloatAdd(x, y) ==
    IF x.m = << >> THEN y
    ELSE IF y.m = << >> THEN x
    ELSE LET e == Min(x.e, y.e)
         IN  RoundToFloat(BigAdd(ShiftLeft(x.m, x.e - e), ShiftLeft(y.m, y.e - e)), e)

\* x < y
FloatLess(x, y) ==
    LET e == Min(x.e, y.e)
    IN  BigLess(ShiftLeft(x.m, x.e - e), ShiftLeft(y.m, y.e - e))

\* x >= n for an integer n and a float x below 2^52.
FloatAtLeast(x, n) ==
    IF n = 0 THEN TRUE
    ELSE IF x.m = << >> THEN FALSE
    ELSE ~BigLess(x.m, ShiftLeft(<< n >>, 0 - x.e))

\* round(x, 2) for a float x below 2^52, in hundredths: the decimal nearest
\* to the value of the float, a tie to the even one.
FloatRound2(x) ==
    IF x.m = << >> THEN 0
    ELSE BigValue(ShiftRightRounded(BigMulSmall(x.m, 100), 0 - x.e))

\* The twelve components in the order of the weighted sum.
ComponentOrder ==
    << "attachment_score", "authentication_score", "header_score",
       "domain_score", "url_score", "infrastructure_score", "mime_score",
       "timing_score", "metadata_score", "ip_analysis_score",
       "url_security_score", "transformer_score" >>

Components == { ComponentOrder[i] : i \in 1..Len(ComponentOrder) }

\* The weight literals of the overall_score expression.
ComponentWeight ==
    [ attachment_score |-> 8, authentication_score |-> 12, header_score |-> 8,
      domain_score |-> 10, url_score |-> 8, infrastructure_score |-> 8,
      mime_score |-> 6, timing_score |-> 6, metadata_score |-> 8,
      ip_analysis_score |-> 7, url_security_score |-> 10,
      transformer_score |-> 3 ]

RECURSIVE WeightTotalUpTo(_)
WeightTotalUpTo(i) ==
    IF i = 0 THEN 0
    ELSE WeightTotalUpTo(i - 1) + ComponentWeight[ComponentOrder[i]]

\* The sum of the twelve weight literals, in hundredths.
WeightTotal == WeightTotalUpTo(Len(ComponentOrder))

\* The weight literals of the overall_score expression as floats.
WeightFloat == [ c \in Components |-> FloatOf(ComponentWeight[c]) ]

\* The scores the calculators return without a provider: sums of multiples
\* of 0.5 up to 10.
HalfScores == { 50 * n : n \in 0..20 }

\* The products (score * weight) for these scores.
HalfScoreTerms ==
    [ c \in Components |->
        [ k \in HalfScores |-> FloatMul(FloatOf(k), WeightFloat[c]) ] ]

\* (score * weight) of component i: the score is an int or a float whose
\* value is cs[...] hundredths.
WeightedTerm(cs, i) ==
    LET c == ComponentOrder[i]
    IN  IF cs[c] \in HalfScores THEN HalfScoreTerms[c][cs[c]]
        ELSE FloatMul(FloatOf(cs[c]), WeightFloat[c])

RECURSIVE WeightedSumUpTo(_, _)
WeightedSumUpTo(cs, i) ==
    IF i = 1 THEN WeightedTerm(cs, 1)
    ELSE FloatAdd(WeightedSumUpTo(cs, i - 1), WeightedTerm(cs, i))

\* overall_score before rounding: the twelve products added from left to
\* right, as a float.
WeightedSum(cs) == WeightedSumUpTo(cs, Len(ComponentOrder))

\* round(overall_score, 2), in hundredths.
RoundTo2(x) == FloatRound2(x)

\* get_risk_level(score) for the float score.
get_risk_level(score) ==
    IF FloatAtLeast(score, 8) THEN "CRITICAL"
    ELSE IF FloatAtLeast(score, 6) THEN "HIGH"
    ELSE IF FloatAtLeast(score, 4) THEN "MEDIUM"
    ELSE IF FloatAtLeast(score, 2) THEN "LOW"
    ELSE "MINIMAL"

\* The module whose functions a calculator imports and calls inside its try.
\* analyzer.extract_urls on the bodies of the model: urlparse is called on
\* every URL found and raises ValueError on a bracket left open.
analyzer_extract_urls(body) ==
    LET found == extract_urls(body)
    IN  [ raises |-> \E i \in 1..Len(found) : urlparse(found[i]).raises,
          urls |-> found ]

\* calculate_comprehensive_phishing_score returned None.
NoneResult == [ returned |-> FALSE, none |-> TRUE ]

\* The try of calculate_comprehensive_phishing_score is left by an exception
\* and its handler returns None: the import of analyzer fails (the module is
\* not on sys.path), or analyze_email raises.
ReturnsNone(msg, failing) ==
    failing = "analyzer" \/ analyzer_extract_urls(msg.Body).raises

\* result.get(key): None for a key the dict does not hold.
DictGet(result, key) == IF key \in DOMAIN result THEN result[key] ELSE PyNone

\* The keys of the dict calculate_comprehensive_phishing_score returned.
KeysOf(result) == DOMAIN result \ { "returned" }

\* src/main.py, analyze_email_route: the fields from_address and to_address
\* of the data of the response made from a result that is not None.
analyze_email_route(result) ==
    [ from_address |-> DictGet(result, "from_address"),
      to_address |-> DictGet(result, "to_address") ]

(***************************************************************************)
(* Trigger pipeline: phishingtool/main.py, parser.py and the run_* checks. *)
(* A Received header is held as what the regular expressions of the code   *)
(* read from it: its IP literals in text order, its timestamp in seconds   *)
(* (NoTime when none parses) and its helo= name (empty when it has none).  *)
(***************************************************************************)

\* parser.parse_authentication: the test  "spf=" in auth_header  and
\* re.search(r'spf=(\w+)', auth_header) are both case-sensitive, and group(1)
\* is kept as written; likewise for dkim and dmarc.
parse_authentication(auth_header) ==
    LET result(i, name) ==
            IF Truthy(auth_header) /\ auth_header[i][2] # ""
                                   /\ auth_header[i][1] = name
            THEN auth_header[i][2] ELSE "None"
    IN  [spf |-> result(1, "spf"), dkim |-> result(2, "dkim"),
         dmarc |-> result(3, "dmarc")]

\* The helo= name of the first header that carries one, or None.
helo_of(received_headers) ==
    IF \E i \in 1..Len(received_headers) : received_headers[i].helo # << >>
    THEN received_headers[CHOOSE i \in 1..Len(received_headers) :
             /\ received_headers[i].helo # << >>
             /\ \A k \in 1..(i-1) : received_headers[k].helo = << >>].helo
    ELSE PyNone

\* parser.extract_metadata: the keys the checks read.
\* The metadata dict: the headers of msg and the domain fields.
MetadataOf(msg, domains) ==
        [ from |-> msg.From, date |-> msg.Date, subject |-> msg.Subject,
          message_id |-> msg.MessageID,
          received_headers |-> msg.Received,
          received_count |-> Len(msg.Received),
          from_domain |-> domains.from_domain,
          reply_to_domain |-> domains.reply_to_domain,
          return_path_domain |-> domains.return_path_domain,
          message_id_domain |-> domains.message_id_domain,
          authentication |-> parse_authentication(msg.AuthResults),
          originating_ip |-> extract_origin_ip(msg.Received),
          helo |-> helo_of(msg.Received),
          reply_to_mismatch |-> domains.reply_to_mismatch,
          return_path_mismatch |-> domains.return_path_mismatch,
          message_id_mismatch |-> domains.message_id_mismatch ]

extract_metadata(msg) == MetadataOf(msg, parser_extract_metadata(msg))

\* parser.extract_urls on the bodies of the model: one dict per URL; urlparse
\* raises ValueError on a bracket left open.
parser_extract_urls(body) ==
    LET found == extract_urls(body)
    IN  [ raises |-> \E i \in 1..Len(found) : urlparse(found[i]).raises,
          urls |-> [ i \in 1..Len(found) |->
                       [ full_url |-> found[i],
                         domain |-> urlparse(found[i]).hostname,
                         scheme |-> urlparse(found[i]).scheme ] ] ]

\* auth_checks.run_auth_checks
run_auth_checks(auth_data) ==
    [ spf_fail |-> auth_data.spf = "fail",
      dkim_fail |-> auth_data.dkim = "fail",
      dmarc_fail |-> auth_data.dmarc = "fail",
      auth_suspicious |-> \/ auth_data.spf = "fail"
                          \/ auth_data.dkim = "fail"
                          \/ auth_data.dmarc = "fail" ]

\* infrastructure_checks.has_private_ip
has_private_ip(received_headers) ==
    \E i \in 1..Len(received_headers) :
        \E k \in 1..Len(FindIpv4(received_headers[i])) :
            LET ip == FindIpv4(received_headers[i])[k]
            IN  ip \notin InvalidLiterals /\ is_private(ip)

\* infrastructure_checks.helo_mismatch
helo_mismatch(helo, from_domain) ==
    IF ~Truthy(helo) \/ ~Truthy(from_domain) THEN FALSE
    ELSE ~HasSubstring(Lower(helo), Lower(from_domain))

\* infrastructure_checks.relay_anomaly
relay_anomaly(received_count) ==
    IF received_count <= 1 THEN TRUE
    ELSE IF received_count > 15 THEN TRUE
    ELSE FALSE

\* infrastructure_checks.run_infrastructure_checks
run_infrastructure_checks(metadata) ==
    LET private == has_private_ip(metadata.received_headers)
        helo    == helo_mismatch(metadata.helo, metadata.from_domain)
        relay   == relay_anomaly(metadata.received_count)
    IN  [ originating_ip |-> metadata.originating_ip,
          relay_count |-> metadata.received_count,
          private_ip_present |-> private,
          helo_mismatch |-> helo,
          relay_anomaly |-> relay,
          infrastructure_suspicious |-> private \/ helo \/ relay ]

\* mime_checks.suspicious_encoding
suspicious_encoding(encodings) ==
    "base64" \in encodings /\ Cardinality(encodings) > 2

\* mime_checks.run_mime_checks: detect_encodings is the set of the
\* Content-Transfer-Encoding values of the parts, in lower case.
run_mime_checks(msg) ==
    [ encodings_used |-> msg.Encodings,
      suspicious_encoding |-> suspicious_encoding(msg.Encodings) ]

\* domain_checks.run_domain_checks: domain_suspicious is the value of a
\* chain of `or`, so it is as truthy as any of its operands.
run_domain_checks(metadata) ==
    LET tld     == has_suspicious_tld(metadata.from_domain)
        spoofed == looks_like_spoofed(metadata.from_domain)
    IN  [ reply_to_mismatch |-> metadata.reply_to_mismatch,
          return_path_mismatch |-> metadata.return_path_mismatch,
          message_id_mismatch |-> metadata.message_id_mismatch,
          suspicious_tld |-> tld,
          spoofed_domain_pattern |-> spoofed,
          domain_suspicious |-> \/ Truthy(metadata.reply_to_mismatch)
                                \/ Truthy(metadata.return_path_mismatch)
                                \/ Truthy(metadata.message_id_mismatch)
                                \/ tld
                                \/ spoofed ]

\* url_checks.run_url_checks: the hosts of the model are no IP literals, carry
\* no suspicious TLD and at most three dots, and no URL is longer than 75
\* characters.
run_url_checks(found) ==
    LET insecure == \E i \in 1..Len(found) : is_insecure_scheme(found[i].scheme)
    IN  [ total_urls |-> Len(found),
          insecure_http |-> insecure,
          url_suspicious |-> insecure ]

\* attachment_checks.run_attachment_checks
run_attachment_checks(attachments) ==
    LET Some(Test(_)) == \E i \in 1..Len(attachments) : Test(attachments[i])
        dangerous == Some(LAMBDA f : is_executable(get_extension(f)))
        double    == Some(has_double_extension)
        macro     == Some(LAMBDA f : has_macro(get_extension(f)))
    IN  [ attachment_count |-> Len(attachments),
          dangerous_extension |-> dangerous,
          double_extension |-> double,
          macro_file |-> macro,
          attachment_suspicious |-> dangerous \/ double \/ macro ]

REQUIRED_HEADERS == << "from", "date", "subject", "message_id" >>

\* header_checks.missing_required_headers
missing_required_headers(metadata) ==
    SelectSeq(REQUIRED_HEADERS, LAMBDA field : ~Truthy(metadata[field]))

\* header_checks.duplicate_headers: the keys whose value is a list of more
\* than one element.  The Received headers are the one list among the
\* values: under received_headers in the dict of parser.extract_metadata,
\* under received in the dict of analyzer.extract_metadata.
duplicate_headers(metadata) ==
    LET key == IF "received" \in DOMAIN metadata THEN "received"
               ELSE "received_headers"
    IN  IF Len(metadata[key]) > 1 THEN << key >> ELSE << >>

\* header_checks.invalid_message_id
invalid_message_id(message_id) ==
    IF ~Truthy(message_id) THEN TRUE
    ELSE IF ~Contains(message_id, "<") \/ ~Contains(message_id, "@") THEN TRUE
    ELSE FALSE

\* header_checks.run_header_checks: no header of the model is longer than
\* 500 characters.
run_header_checks(metadata) ==
    LET missing    == missing_required_headers(metadata)
        duplicates == duplicate_headers(metadata)
        invalid    == invalid_message_id(metadata.message_id)
    IN  [ missing_headers |-> missing,
          duplicate_headers |-> duplicates,
          invalid_message_id |-> invalid,
          header_suspicious |-> missing # << >> \/ duplicates # << >> \/ invalid ]

RECURSIVE extract_timestamps(_)
\* timing_checks.extract_timestamps
extract_timestamps(received_headers) ==
    IF received_headers = << >> THEN << >>
    ELSE LET rest == extract_timestamps(Tail(received_headers))
         IN  IF Head(received_headers).time = NoTime THEN rest
             ELSE << Head(received_headers).time >> \o rest

\* A reading of the headers from the oldest hop to the newest.
has_time_travel_Reversed(timestamps) ==
    IF Len(timestamps) < 2 THEN FALSE
    ELSE \E i \in 1..(Len(timestamps) - 1) : timestamps[i] > timestamps[i + 1]

\* timing_checks.has_time_travel
has_time_travel(timestamps) ==
    IF Len(timestamps) < 2 THEN FALSE
    ELSE \E i \in 1..(Len(timestamps) - 1) : timestamps[i] < timestamps[i + 1]

\* timing_checks.total_delivery_time; NoTime stands for None.
total_delivery_time(timestamps) ==
    IF Len(timestamps) < 2 THEN NoTime
    ELSE LET d == timestamps[1] - timestamps[Len(timestamps)]
         IN  IF d < 0 THEN 0 - d ELSE d

\* timing_checks.suspicious_delivery
suspicious_delivery(total_seconds) ==
    IF total_seconds = NoTime THEN FALSE
    ELSE IF total_seconds < 1 THEN TRUE
    ELSE IF total_seconds > 86400 THEN TRUE
    ELSE FALSE

\* timing_checks.run_timing_checks
run_timing_checks(metadata) ==
    LET timestamps == extract_timestamps(metadata.received_headers)
        travel     == has_time_travel(timestamps)
        total      == total_delivery_time(timestamps)
        delay      == suspicious_delivery(total)
    IN  [ timestamp_count |-> Len(timestamps),
          time_travel_detected |-> travel,
          total_delivery_seconds |-> total,
          suspicious_delivery_time |-> delay,
          timing_suspicious |-> travel \/ delay ]

\* The modules main calls after the parser, in call order.
DetectorModules ==
    << "auth_checks", "infrastructure_checks", "mime_checks", "domain_checks",
       "url_checks", "attachment_checks", "header_checks", "timing_checks" >>

\* The results of the eight run_* calls of main.
RunModules(msg, metadata) ==
        [ authentication |-> run_auth_checks(metadata.authentication),
          infrastructure |-> run_infrastructure_checks(metadata),
          mime |-> run_mime_checks(msg),
          domain |-> run_domain_checks(metadata),
          url |-> run_url_checks(parser_extract_urls(msg.Body).urls),
          attachment |-> run_attachment_checks(msg.Attachments),
          header |-> run_header_checks(metadata),
          timing |-> run_timing_checks(metadata) ]

RunAllModules(msg) == RunModules(msg, extract_metadata(msg))

\* The flags calculate_risk_score reads from all_results.
FlagsOf(results) ==
    [ spf_fail |-> results.authentication.spf_fail,
      dkim_fail |-> results.authentication.dkim_fail,
      dmarc_fail |-> results.authentication.dmarc_fail,
      domain_suspicious |-> results.domain.domain_suspicious,
      url_suspicious |-> results.url.url_suspicious,
      attachment_suspicious |-> results.attachment.attachment_suspicious,
      infrastructure_suspicious |-> results.infrastructure.infrastructure_suspicious,
      header_suspicious |-> results.header.header_suspicious,
      timing_suspicious |-> results.timing.timing_suspicious,
      suspicious_encoding |-> results.mime.suspicious_encoding ]

\* The risk level of main's report.
RiskLevelOf(score) ==
    IF score >= 60 THEN "HIGH" ELSE IF score >= 30 THEN "MEDIUM" ELSE "LOW"

\* An exception left the call.
Raised == [ returned |-> FALSE, raised |-> TRUE ]

\* The report main builds from the score and the metadata.
Report(final_score, metadata) ==
    [ returned |-> TRUE,
      raised |-> FALSE,
      score |-> final_score.score,
      verdict |-> final_score.verdict,
      risk_level |-> RiskLevelOf(final_score.score),
      origin |-> [ ip |-> metadata.originating_ip ],
      triggers |-> final_score.triggers ]

\* main(email_path): the report, or the exception of the parser or of the
\* module that raises; no call of main is inside a try.
main(msg, failing) ==
    IF parser_extract_urls(msg.Body).raises THEN Raised
    ELSE IF \E i \in 1..Len(DetectorModules) : DetectorModules[i] = failing
    THEN Raised
    ELSE Report(calculate_risk_score(FlagsOf(RunAllModules(msg))),
                extract_metadata(msg))

(***************************************************************************)
(* phishingtool/attachment_analyzer.py                                     *)
(***************************************************************************)

DANGEROUS_EXTENSIONS ==
    { << ".", "e", "x", "e" >>,
      << ".", "b", "a", "t" >>,
      << ".", "c", "m", "d" >>,
      << ".", "s", "c", "r" >>,
      << ".", "j", "s" >>,
      << ".", "v", "b", "s" >>,
      << ".", "p", "s", "1" >>,
      << ".", "j", "a", "r" >> }

\* MAX_FILE_SIZE_BYTES, 20 MB.
MAX_FILE_SIZE_BYTES == 20 * 1024 * 1024

MAX_RISK_SCORE == 100

SCORE_DANGEROUS_EXTENSION == 45

SCORE_MACRO_EXTENSION == 40

SCORE_DOUBLE_EXTENSION == 20

SCORE_MIME_MISMATCH == 15

SCORE_LARGE_FILE == 8

\* MIME_MAP.get(ext): the MIME type expected for an extension, or None.
MIME_MAP(ext) ==
    CASE ext = << ".", "p", "d", "f" >> ->
             "application/pdf"
      [] ext = << ".", "d", "o", "c", "x" >> ->
             "application/vnd.openxmlformats-officedocument.wordprocessingml.document"
      [] ext = << ".", "x", "l", "s", "x" >> ->
             "application/vnd.openxmlformats-officedocument.spreadsheetml.sheet"
      [] ext = << ".", "j", "p", "g" >> ->
             "image/jpeg"
      [] ext = << ".", "j", "p", "e", "g" >> ->
             "image/jpeg"
      [] ext = << ".", "p", "n", "g" >> ->
             "image/png"
      [] ext = << ".", "e", "x", "e" >> ->
             "application/x-msdownload"
      [] ext = << ".", "b", "a", "t" >> ->
             "application/x-msdownload"
      [] ext = << ".", "c", "m", "d" >> ->
             "application/x-msdownload"
      [] ext = << ".", "s", "c", "r" >> ->
             "application/x-msdownload"
      [] ext = << ".", "j", "s" >> ->
             "application/javascript"
      [] ext = << ".", "v", "b", "s" >> ->
             "text/vbscript"
      [] ext = << ".", "p", "s", "1" >> ->
             "application/x-powershell"
      [] ext = << ".", "j", "a", "r" >> ->
             "application/java-archive"
      [] ext = << ".", "d", "o", "c", "m" >> ->
             "application/vnd.ms-word.document.macroEnabled.12"
      [] ext = << ".", "x", "l", "s", "m" >> ->
             "application/vnd.ms-excel.sheet.macroEnabled.12"
      [] ext = << ".", "p", "p", "t", "m" >> ->
             "application/vnd.ms-powerpoint.presentation.macroEnabled.12"
      [] OTHER -> "None"

\* str.lower on the MIME types of the model and of MIME_MAP.
MimeLower(mime_type) ==
    CASE mime_type = "APPLICATION/PDF" -> "application/pdf"
      [] mime_type = "application/vnd.ms-word.document.macroEnabled.12" ->
             "application/vnd.ms-word.document.macroenabled.12"
      [] mime_type = "application/vnd.ms-excel.sheet.macroEnabled.12" ->
             "application/vnd.ms-excel.sheet.macroenabled.12"
      [] mime_type = "application/vnd.ms-powerpoint.presentation.macroEnabled.12" ->
             "application/vnd.ms-powerpoint.presentation.macroenabled.12"
      [] OTHER -> mime_type

check_dangerous_extension(filename) ==
    splitext(Lower(filename)) \in DANGEROUS_EXTENSIONS

\* check_double_extension: at least three parts between dots, the last one
\* a dangerous extension.
check_double_extension(filename) ==
    IF SplitCount(Lower(filename)) < 3 THEN FALSE
    ELSE << "." >> \o AfterLast(Lower(filename), ".") \in DANGEROUS_EXTENSIONS

check_mime_mismatch(filename, mime_type) ==
    LET ext == splitext(Lower(filename))
    IN  IF ext = << >> THEN FALSE
        ELSE IF MIME_MAP(ext) = "None" THEN FALSE
        ELSE MimeLower(MIME_MAP(ext)) # MimeLower(mime_type)

check_macro_extension(filename) ==
    splitext(Lower(filename)) \in MACRO_EXTENSIONS

\* A faulty variant: the cap of the score forgotten.
CapRisk_NoCap(score) == score

\* min(score, MAX_RISK_SCORE)
CapRisk(score) == Min(score, MAX_RISK_SCORE)

\* attachment_analyzer.calculate_risk_score
attachment_calculate_risk_score(dangerous_ext, double_ext, mime_mismatch, macro_ext, large_file) ==
    CapRisk((IF dangerous_ext THEN SCORE_DANGEROUS_EXTENSION ELSE 0)
            + (IF macro_ext THEN SCORE_MACRO_EXTENSION ELSE 0)
            + (IF double_ext THEN SCORE_DOUBLE_EXTENSION ELSE 0)
            + (IF mime_mismatch THEN SCORE_MIME_MISMATCH ELSE 0)
            + (IF large_file THEN SCORE_LARGE_FILE ELSE 0))

get_verdict(risk_score) ==
    IF risk_score >= 40 THEN "MALICIOUS"
    ELSE IF risk_score >= 15 THEN "SUSPICIOUS"
    ELSE "SAFE"

\* analyze_attachment; file_bytes is held as its length.
analyze_attachment(filename, size_bytes, mime_type) ==
    LET dangerous_ext == check_dangerous_extension(filename)
        double_ext    == check_double_extension(filename)
        mime_mismatch == check_mime_mismatch(filename, mime_type)
        macro_ext     == check_macro_extension(filename)
        large_file    == size_bytes > MAX_FILE_SIZE_BYTES
        risk_score    == attachment_calculate_risk_score(
                             dangerous_ext, double_ext, mime_mismatch,
                             macro_ext, large_file)
    IN  [ returned |-> TRUE,
          filename |-> filename,
          mime_type |-> mime_type,
          size_bytes |-> size_bytes,
          checks |-> [ dangerous_extension |-> dangerous_ext,
                       double_extension |-> double_ext,
                       mime_mismatch |-> mime_mismatch,
                       macro_extension |-> macro_ext,
                       large_file |-> large_file ],
          risk_score |-> risk_score,
          verdict |-> get_verdict(risk_score) ]

\* The filenames of the model.
Filenames ==
    { << "r", ".", "p", "d", "f" >>,
      << "R", ".", "P", "D", "F" >>,
      << "i", ".", "p", "d", "f", ".", "e", "x", "e" >>,
      << "x", ".", "e", "x", "e" >>,
      << "f", ".", "d", "o", "c", "m" >>,
      << "a", ".", "b", ".", "c" >>,
      << "n" >>,
      << ".", ".", "e", "x", "e" >>,
      << ".", "e", "x", "e" >>,
      << "a", ".", "b", ".", "j", "a", "r" >>,
      << "x", ".", "j", "s", ".", "d", "o", "c", "m" >>,
      << "r", ".", "v", "2", ".", "p", "d", "f" >> }

MimeTypes ==
    { "application/pdf",
      "APPLICATION/PDF",
      "application/x-msdownload",
      "application/vnd.ms-word.document.macroEnabled.12",
      "application/octet-stream" }

FileSizes == { 0, MAX_FILE_SIZE_BYTES, MAX_FILE_SIZE_BYTES + 1 }

\* The arguments of one call of analyze_attachment.
Attachments == [ filename : Filenames, mime_type : MimeTypes, size_bytes : FileSizes ]

\* The arguments of one call of calculate_risk_score.
CheckResults ==
    [ dangerous_ext : BOOLEAN, double_ext : BOOLEAN, mime_mismatch : BOOLEAN,
      macro_ext : BOOLEAN, large_file : BOOLEAN ]

(***************************************************************************)
(* Inputs                                                                  *)
(***************************************************************************)

\* Header values: absent, a bare address, a named address, no address at all.
FromValues ==
    { PyNone,
      << "a", "@", "x" >>,
      << "A", " ", "<", "a", "@", "X", ">" >>,
      << "a", "@", "y", ".", "r", "u" >>,
      << "a" >> }

ReplyToValues ==
    { PyNone, << "a", "@", "x" >>, << "b", "@", "y" >>, << "b" >> }

ReturnPathValues ==
    { PyNone, << "<", "a", "@", "x", ">" >>,
      << "<", "b", "@", "p", "a", "y", "p", "a", "1", ".", "x", ">" >>,
      << "<", ">" >> }

MessageIdValues ==
    { PyNone, << "<", "1", "@", "x", ">" >>, << "<", "1", "@", "Y", ">" >>,
      << "1" >> }

AuthResultsValues ==
    { PyNone, AuthHeader("pass", "pass", "pass"), AuthHeader("fail", "pass", ""),
      AuthHeader("softfail", "neutral", "quarantine"), AuthHeader("fail", "fail", "fail") }

XMailerValues == { PyNone, << "U", "n", "k", "n", "o", "w", "n" >> }

\* One Received header.
Hop(ips, time, helo) == [ ips |-> ips, time |-> time, helo |-> helo ]

\* Three hops, the newest first, ten seconds apart, one public address.
ThreeHops ==
    << Hop(<< "8.8.8.8" >>, 30, << >>), Hop(<< >>, 20, << >>),
       Hop(<< >>, 10, << >>) >>

\* Sixteen hops, the newest first.
SixteenHops == [ i \in 1..16 |-> Hop(<< >>, 100 - i, << >>) ]

ReceivedValues ==
    { ThreeHops,
      SixteenHops,
      << Hop(<< "8.8.8.8" >>, 30, << >>) >>,
      << Hop(<< >>, 10, << >>), Hop(<< >>, 20, << >>), Hop(<< >>, 30, << >>) >>,
      << Hop(<< "10.0.0.1", "8.8.8.8" >>, 30, << >>), Hop(<< >>, 20, << >>),
         Hop(<< >>, 10, << >>) >>,
      << Hop(<< >>, 30, << "m", ".", "x" >>), Hop(<< >>, 20, << >>),
         Hop(<< >>, NoTime, << >>) >> }

\* The attachment lists of the model, by filename: none, a PDF, a
\* macro-enabled document, an executable behind a second extension, an
\* attachment without a filename.
AttachmentValues ==
    { << >>,
      << << "r", ".", "p", "d", "f" >> >>,
      << << "f", ".", "D", "O", "C", "M" >> >>,
      << << "i", ".", "p", "d", "f", ".", "e", "x", "e" >> >>,
      << PyNone >> }

EncodingValues == { { }, { "base64", "7bit", "quoted-printable" } }

\* A message whose address headers all name the same domain.
PlainEmail ==
    [ From |-> << "a", "@", "x" >>, ReplyTo |-> PyNone,
      ReturnPath |-> << "<", "a", "@", "x", ">" >>,
      MessageID |-> << "<", "1", "@", "x", ">" >>,
      AuthResults |-> AuthHeader("pass", "pass", "pass"), XMailer |-> PyNone,
      Body |-> "hello", Date |-> << "d" >>, Subject |-> << "s" >>,
      Received |-> ThreeHops, XOriginatingIP |-> << >>,
      Attachments |-> << >>, Encodings |-> { } ]

\* The messages of the mismatch specification: every combination of the four
\* address headers.
Emails ==
    [ From : FromValues, ReplyTo : ReplyToValues,
      ReturnPath : ReturnPathValues, MessageID : MessageIdValues,
      AuthResults : { AuthHeader("pass", "pass", "pass") }, XMailer : { PyNone },
      Body : { "hello", "see https://a.com/" },
      Date : { << "d" >> }, Subject : { << "s" >> },
      Received : { ThreeHops }, XOriginatingIP : { << >> },
      Attachments : { << >> }, Encodings : { { } } ]

\* The routing of the messages of the weighted specification: three hops;
\* one hop; a private literal in the first of three hops; three hops whose
\* timestamps grow from the first header to the last.
WeightedReceivedValues ==
    { ThreeHops,
      << Hop(<< "8.8.8.8" >>, 30, << >>) >>,
      << Hop(<< "10.0.0.1", "8.8.8.8" >>, 30, << >>), Hop(<< >>, 20, << >>),
         Hop(<< >>, 10, << >>) >>,
      << Hop(<< "8.8.8.8" >>, 10, << >>), Hop(<< >>, 20, << >>),
         Hop(<< >>, 30, << >>) >> }

\* The messages of the weighted specification: every Authentication-Results
\* and X-Mailer value, on a plain message and on a spoofed one, with each
\* routing and with parts of one or of three transfer encodings.
WeightedEmails ==
    [ From : { << "a", "@", "x" >>, << "a", "@", "y", ".", "r", "u" >> },
      ReplyTo : { PyNone },
      ReturnPath : { << "<", "a", "@", "x", ">" >> },
      MessageID : { << "<", "1", "@", "x", ">" >> },
      AuthResults : AuthResultsValues, XMailer : XMailerValues,
      Body : { "see https://a.com/", "see http://a.com/login" },
      Date : { << "d" >> }, Subject : { << "s" >> },
      Received : WeightedReceivedValues, XOriginatingIP : { << >> },
      Attachments : { << >> }, Encodings : EncodingValues ]

\* The routing of the messages of the origin specification: a public IPv4
\* literal in the first hop; a private one before it; a public IPv6 literal
\* alone; an IPv6 literal before an IPv4 one in the same header; private,
\* loopback and link-local literals only; a string that is no address before
\* a public literal; no hop at all.
OriginReceivedValues ==
    { ThreeHops,
      << Hop(<< "10.0.0.1", "8.8.8.8" >>, 30, << >>), Hop(<< >>, 20, << >>) >>,
      << Hop(<< "2001:4860::8888" >>, 30, << >>) >>,
      << Hop(<< "2001:4860::8888", "8.8.8.8" >>, 30, << >>) >>,
      << Hop(<< "10.0.0.1" >>, 30, << >>),
         Hop(<< "127.0.0.1", "169.254.1.1", "::1", "fe80::1" >>, 20, << >>) >>,
      << Hop(<< "999.1.1.1" >>, 30, << >>), Hop(<< "1.1.1.1" >>, 20, << >>) >>,
      << >> }

\* The X-Originating-IP header: absent, a public literal, a private one.
XOriginatingIPValues == { << >>, << "8.8.8.8" >>, << "10.0.0.1" >> }

OriginEmails ==
    { [PlainEmail EXCEPT !.Received = r, !.XOriginatingIP = x, !.Body = b] :
        r \in OriginReceivedValues, x \in XOriginatingIPValues,
        b \in { "hello", "see https://a.com/" } }

\* The messages of the trigger pipeline.
TriggerEmails ==
    [ From : { PyNone, << "a", "@", "x" >>, << "a", "@", "y", ".", "r", "u" >> },
      ReplyTo : { PyNone, << "a", "@", "x" >>, << "b", "@", "y" >> },
      ReturnPath : { << "<", "a", "@", "x", ">" >> },
      MessageID : { << "<", "1", "@", "x", ">" >>, << "1" >> },
      AuthResults : { PyNone, AuthHeader("pass", "pass", "pass"),
                      AuthHeader("fail", "pass", "fail") },
      XMailer : { PyNone },
      Body : { "hello", "see https://a.com/", "see http://a.com/login",
               "see http://[bad" },
      Date : { PyNone, << "d" >> }, Subject : { << "s" >> },
      Received : ReceivedValues, XOriginatingIP : { << >> },
      Attachments : AttachmentValues,
      Encodings : EncodingValues ]

\* The bodies of the model: empty, without a URL, with one URL.
Bodies ==
    { "", "hello", "see https://a.com/", "see http://a.com/login",
      "see http://[bad" }

\* Values the two score providers can return, in hundredths: 0, the largest
\* value, and some in between.
ProviderValues ==
    [ url_security_score |-> {0, 500, 1000},
      transformer_score |-> {0, 33, 90, 1000} ]

\* Both providers answer.
\* What has_spf, has_dmarc and has_dkim of url_analyzer return for a domain.
DnsAnswer(spf, dmarc, dkim) == [ spf |-> spf, dmarc |-> dmarc, dkim |-> dkim ]

WorkingProviders ==
    [ url_ml : { Returns(v) : v \in ProviderValues.url_security_score },
      transformer : { Returns(v) : v \in ProviderValues.transformer_score },
      dns : { DnsAnswer(TRUE, FALSE, FALSE), DnsAnswer(FALSE, TRUE, TRUE) } ]

\* Each provider answers, is unavailable or raises.
Providers ==
    [ url_ml : { Returns(v) : v \in ProviderValues.url_security_score }
               \cup { Unavailable, Raises },
      transformer : { Returns(v) : v \in ProviderValues.transformer_score }
                    \cup { Unavailable, Raises },
      dns : { DnsAnswer(TRUE, TRUE, TRUE) } ]

IdleProviders ==
    [ url_ml |-> Returns(0), transformer |-> Returns(0),
      dns |-> DnsAnswer(FALSE, FALSE, FALSE) ]

(***************************************************************************)
(* score_backend/url_analyzer.py and score_backend/security_check.py:      *)
(* the cached DNS checks                                                   *)
(***************************************************************************)

\* The longest URL list passed to analyze_urls_parallel.
MaxUrls == 2

\* The number of DNS checks one behaviour calls directly.
MaxCalls == 3

\* Thread 0 is the thread of the caller; thread i > 0 is the pool thread that
\* runs the i-th submitted call.
Threads == 0..MaxUrls

NoThread == -1

\* The two modules that define has_spf, has_dmarc and has_dkim, each with a
\* _dns_cache of its own.
Modules == { "url_analyzer", "security_check" }

\* has_spf, has_dmarc, has_dkim and the check of the address, named by the
\* prefix of their cache key: the check of the address is domain_resolves in
\* url_analyzer and unknown_ip in security_check.
KindsOf(module) == { "spf", "dmarc", "dkim", "ip" }

Kinds == KindsOf("url_analyzer")

\* The domains a caller passes to a check directly.
CalledDomains == { "a.com", "paypa1.com" }

\* The hosts of the URLs of the model that reach a DNS check.
Domains ==
    CalledDomains \cup { "1.2.3.4", "2001:db8::1", "a1234.xyz",
                         "login.secure.account.verify.paypa1.com" }

\* key = f"{kind}_{domain}".  No two of the prefixes spf_, dmarc_, dkim_, ip_
\* is a prefix of another, so the key determines the pair and is held as it.
CacheKey(kind, domain) == << kind, domain >>

Keys == { CacheKey(k, d) : k \in Kinds, d \in Domains }

\* The DKIM selectors has_dkim tries, in order.
selectors(module) ==
    IF module = "url_analyzer"
    THEN << "default", "selector1", "selector2" >>
    ELSE << "default", "selector1", "selector2", "s1", "s2" >>

\* What one query can end with: answers holding the record looked for,
\* answers without it, or an exception of the resolver.
ResolverExceptions == { "NXDOMAIN", "Timeout", "NoAnswer", "gaierror" }

\* resolver.resolve(name, "TXT") returns answers or raises a DNSException;
\* socket.gethostbyname returns an address or raises.
OutcomesOf(kind) ==
    IF kind = "ip" THEN { "record", "gaierror", "Timeout" }
    ELSE { "record", "other", "NXDOMAIN", "Timeout", "NoAnswer" }

\* The queries the checks send: the kind of record, the domain and, for
\* has_dkim, the position of the selector (1 for the other checks).
Queries == Kinds \X Domains \X (1..5)

QueryOf(f) == << f.kind, f.domain, f.selector >>

\* A resolver that may end any query with any outcome.
AnyResolver == [ q \in Queries |-> "any" ]

\* Resolvers whose response depends on the query alone: every record is
\* there; no domain exists; and one with a record for SPF, a timeout for
\* DMARC, the DKIM record under the second selector only, and an address.
AllRecords == [ q \in Queries |-> "record" ]

NoRecords == [ q \in Queries |-> IF q[1] = "ip" THEN "gaierror" ELSE "NXDOMAIN" ]

MixedRecords ==
    [ q \in Queries |->
        CASE q[1] = "spf" -> "record"
          [] q[1] = "dmarc" -> "Timeout"
          [] q[1] = "dkim" -> IF q[3] = 2 THEN "record" ELSE "NoAnswer"
          [] q[1] = "ip" -> "record" ]

FixedResolvers == { AllRecords, NoRecords, MixedRecords }

\* The resolver that finds the records of the kinds answers names and no
\* other, under every selector, and resolves every name to an address.
ResolverOf(answers) ==
    [ q \in Queries |->
        IF q[1] \notin DOMAIN answers THEN "record"
        ELSE IF answers[q[1]] THEN "record"
        ELSE IF q[1] = "ip" THEN "gaierror"
        ELSE "NXDOMAIN" ]

\* What has_spf, has_dmarc, has_dkim and domain_resolves of url_analyzer
\* return for a domain under a resolver whose response depends on the query
\* alone: has_dkim finds its record under any of its selectors.
ResolvedChecks(res, domain) ==
    [ k \in Kinds |->
        IF domain \notin Domains THEN PyNone
        ELSE IF k = "dkim"
        THEN PyBool(\E i \in 1..Len(selectors("url_analyzer")) :
                        res[<< k, domain, i >>] = "record")
        ELSE PyBool(res[<< k, domain, 1 >>] = "record") ]

\* except clauses narrowed to dns.exception.DNSException: a faulty variant
\* that lets socket errors through.
HandlerCatches_DnsOnly(exception) ==
    exception \in { "NXDOMAIN", "Timeout", "NoAnswer" }

\* except Exception (and except (DNSException, Exception)): every exception
\* the resolver raises is an Exception.
HandlerCatches(exception) == exception \in ResolverExceptions

\* The hit test with truthiness in place of "is not None": a faulty variant
\* that takes a cached False for a miss.
CacheHit_Truthy(cached) == Truthy(cached)

\* The hit test that never hits: a faulty variant.
CacheHit_Never(cached) == FALSE

\* url_analyzer: cached is not None; security_check: cache_key in _dns_cache.
\* A key the dict does not hold reads as None.
CacheHit(cached) == cached # PyNone

IdleFrame ==
    [ module |-> "url_analyzer", kind |-> "spf", domain |-> "a.com",
      cached |-> PyNone, selector |-> 1, queries |-> 0, raised |-> 0,
      value |-> PyNone, wrote |-> PyNone ]

FrameKey(t) == CacheKey(frame[t].kind, frame[t].domain)

EmptyCache == [ k \in Keys |-> PyNone ]

IdleDns ==
    /\ dns_cache = [ m \in Modules |-> EmptyCache ]
    /\ cache_lock = NoThread
    /\ pc = [ t \in Threads |-> "idle" ]
    /\ frame = [ t \in Threads |-> IdleFrame ]
    /\ first_return = [ m \in Modules |-> EmptyCache ]
    /\ calls_made = 0

\* Thread t calls has_spf / has_dmarc / has_dkim / domain_resolves of a module.
EnterCheck(t, module, kind, domain) ==
    /\ pc' = [pc EXCEPT ![t] = IF module = "url_analyzer" THEN "get_cache"
                               ELSE "lookup"]
    /\ frame' = [frame EXCEPT ![t] =
                    [ module |-> module, kind |-> kind, domain |-> domain,
                      cached |-> PyNone, selector |-> 1, queries |-> 0,
                      raised |-> 0, value |-> PyNone, wrote |-> PyNone ]]

\* The thread's own code after the cache has been read: return the cached
\* value on a hit, go on to the resolver on a miss.
AfterLookup(t, cached) ==
    /\ frame' = [frame EXCEPT ![t].cached = cached,
                              ![t].value = IF CacheHit(cached) THEN cached
                                           ELSE PyNone]
    /\ pc' = [pc EXCEPT ![t] = IF CacheHit(cached) THEN "return" ELSE "resolve"]

\* A lock that never makes a thread wait: a faulty variant.
LockIsFree_Always(lock) == TRUE

\* threading.Lock: acquire goes on only when no thread holds the lock.
LockIsFree(lock) == lock = NoThread

\* with _cache_lock: entered by _get_cache and by _set_cache.
AcquireCacheLock(t) ==
    /\ pc[t] \in { "get_cache", "set_cache" }
    /\ LockIsFree(cache_lock)
    /\ cache_lock' = t
    /\ pc' = [pc EXCEPT ![t] = IF pc[t] = "get_cache" THEN "get_cache_locked"
                               ELSE "set_cache_locked"]
    /\ UNCHANGED <<dns_cache, frame, first_return, calls_made>>

\* _get_cache: return _dns_cache.get(key), leaving the with block.
GetCache(t) ==
    /\ pc[t] = "get_cache_locked"
    /\ cache_lock = t
    /\ cache_lock' = NoThread
    /\ AfterLookup(t, dns_cache["url_analyzer"][FrameKey(t)])
    /\ UNCHANGED <<dns_cache, first_return, calls_made>>

\* security_check: if cache_key in _dns_cache: return _dns_cache[cache_key]
SecurityCheckLookup(t) ==
    /\ pc[t] = "lookup"
    /\ AfterLookup(t, dns_cache["security_check"][FrameKey(t)])
    /\ UNCHANGED <<dns_cache, cache_lock, first_return, calls_made>>

\* resolver.resolve(...) / socket.gethostbyname(...) is called: the query is
\* in flight until it returns or raises.
SendQuery(t) ==
    /\ pc[t] = "resolve"
    /\ pc' = [pc EXCEPT ![t] = "in_flight"]
    /\ frame' = [frame EXCEPT ![t].queries = @ + 1]
    /\ UNCHANGED <<dns_cache, cache_lock, first_return, calls_made>>

\* What a check returns and stores when its record was found or not: found
\* itself, but unknown_ip of security_check is True for a name that does not
\* resolve and False for one that does.
CheckValue(f, found) ==
    IF f.module = "security_check" /\ f.kind = "ip" THEN PyBool(~found)
    ELSE PyBool(found)

\* The position at which the thread writes its result to the cache.
StorePosition(t) ==
    IF frame[t].module = "url_analyzer" THEN "set_cache" ELSE "store"

\* The query ends.  A matching record makes the result that of a record
\* found.  Without one, or on an exception the handler catches, has_dkim goes
\* on to the next selector and the other checks (and has_dkim after its last
\* selector) fall through to the result of a record not found.  An exception
\* no handler catches leaves the call.
ReceiveAnswer(t, outcome) ==
    /\ pc[t] = "in_flight"
    /\ outcome \in OutcomesOf(frame[t].kind)
    /\ resolver[QueryOf(frame[t])] \in { "any", outcome }
    /\ LET f       == frame[t]
           raises  == outcome \in ResolverExceptions
           caught  == IF raises THEN 1 ELSE 0
           more    == f.kind = "dkim" /\ f.selector < Len(selectors(f.module))
       IN  IF outcome = "record"
           THEN /\ frame' = [frame EXCEPT ![t].value = CheckValue(f, TRUE)]
                /\ pc' = [pc EXCEPT ![t] = StorePosition(t)]
           ELSE IF raises /\ ~HandlerCatches(outcome)
           THEN /\ frame' = [frame EXCEPT ![t].raised = @ + 1]
                /\ pc' = [pc EXCEPT ![t] = "raised"]
           ELSE IF more
           THEN /\ frame' = [frame EXCEPT ![t].selector = @ + 1,
                                          ![t].raised = @ + caught]
                /\ pc' = [pc EXCEPT ![t] = "resolve"]
           ELSE /\ frame' = [frame EXCEPT ![t].value = CheckValue(f, FALSE),
                                          ![t].raised = @ + caught]
                /\ pc' = [pc EXCEPT ![t] = StorePosition(t)]
    /\ UNCHANGED <<dns_cache, cache_lock, first_return, calls_made>>

\* _set_cache: _dns_cache[key] = value, leaving the with block.
SetCache(t) ==
    /\ pc[t] = "set_cache_locked"
    /\ cache_lock = t
    /\ cache_lock' = NoThread
    /\ dns_cache' = [dns_cache EXCEPT !["url_analyzer"][FrameKey(t)] = frame[t].value]
    /\ frame' = [frame EXCEPT ![t].wrote = frame[t].value]
    /\ pc' = [pc EXCEPT ![t] = "return"]
    /\ UNCHANGED <<first_return, calls_made>>

\* security_check: _dns_cache[cache_key] = True / False
SecurityCheckStore(t) ==
    /\ pc[t] = "store"
    /\ dns_cache' = [dns_cache EXCEPT !["security_check"][FrameKey(t)] = frame[t].value]
    /\ frame' = [frame EXCEPT ![t].wrote = frame[t].value]
    /\ pc' = [pc EXCEPT ![t] = "return"]
    /\ UNCHANGED <<cache_lock, first_return, calls_made>>

\* The steps of a check of url_analyzer between its call and its return.
UrlAnalyzerStep(t) ==
    \/ AcquireCacheLock(t)
    \/ GetCache(t)
    \/ SendQuery(t)
    \/ \E outcome \in ResolverExceptions \cup { "record", "other" } :
           ReceiveAnswer(t, outcome)
    \/ SetCache(t)

\* The cache steps of a check of security_check.
SecurityCheckStep(t) ==
    \/ SecurityCheckLookup(t)
    \/ SecurityCheckStore(t)

\* security_check has no thread pool: its checks are called from the thread
\* of the caller.  The pool threads run analyze_url of url_analyzer.
ModulesOf(t) == IF t = 0 THEN Modules ELSE { "url_analyzer" }

\* The pool threads check the URLs of one domain.
DomainsOf(t) == IF t = 0 THEN CalledDomains ELSE { "a.com" }

\* A caller calls one of the checks directly.
CallCheck(t) ==
    /\ pc[t] = "idle"
    /\ calls_made < MaxCalls
    /\ calls_made' = calls_made + 1
    /\ \E module \in ModulesOf(t) : \E kind \in KindsOf(module) :
           \E domain \in DomainsOf(t) : EnterCheck(t, module, kind, domain)
    /\ UNCHANGED <<dns_cache, cache_lock, first_return>>

\* The check returns frame[t].value to its caller.
ReturnCheck(t) ==
    /\ pc[t] = "return"
    /\ pc' = [pc EXCEPT ![t] = "idle"]
    /\ first_return' =
           [first_return EXCEPT ![frame[t].module][FrameKey(t)] =
               IF @ = PyNone THEN frame[t].value ELSE @]
    /\ frame' = [frame EXCEPT ![t] = IdleFrame]
    /\ UNCHANGED <<dns_cache, cache_lock, calls_made>>

(***************************************************************************)
(* phishingtool/score_calculator.py: the DNS checks of                     *)
(* calculate_url_security_score, made in the thread of its caller          *)
(***************************************************************************)

\* No call of calculate_url_security_score is in its loop.
IdleUrlSecurity ==
    [ active |-> FALSE, urls |-> << >>, index |-> 0, results |-> NoLists ]

\* What the thread has gathered when its check returns: the result appended
\* to the list of the kind of the check.
Gathered(t) ==
    [ url_security[t].results EXCEPT ![frame[t].kind] = Append(@, frame[t].value) ]

\* The check that returns is the last one of the call: has_dkim for the last
\* URL of the list, or for a URL before one that get_domain rejects.
LastCheck(t) ==
    /\ frame[t].kind = "dkim"
    /\ IF url_security[t].index = Len(url_security[t].urls) THEN TRUE
       ELSE urlparse(url_security[t].urls[url_security[t].index + 1]).raises

\* The lists calculate_url_security_score returns after its last check: as
\* gathered at the end of the loop, empty from the handler.
ReturnedLists(t) ==
    IF url_security[t].index = Len(url_security[t].urls) THEN Gathered(t)
    ELSE NoLists

\* The loop of calculate_url_security_score is entered in thread t on the
\* URLs found: get_domain and has_spf are called for the first one.
EnterUrlSecurityLoop(t, found) ==
    /\ url_security' = [url_security EXCEPT ![t] =
                           [ active |-> TRUE, urls |-> found, index |-> 1,
                             results |-> NoLists ]]
    /\ EnterCheck(t, "url_analyzer", UrlSecurityChecks[1], get_domain(found[1]))

\* A check returns to the loop of calculate_url_security_score and its
\* result is appended: has_dmarc follows has_spf and has_dkim has_dmarc for
\* the same domain, get_domain and has_spf for the next URL follow has_dkim.
NextUrlCheck(t) ==
    /\ pc[t] = "return"
    /\ url_security[t].active
    /\ ~LastCheck(t)
    /\ LET us   == url_security[t]
           kind == frame[t].kind
       IN  IF kind = "spf"
           THEN /\ EnterCheck(t, "url_analyzer", "dmarc", frame[t].domain)
                /\ url_security' = [url_security EXCEPT ![t].results = Gathered(t)]
           ELSE IF kind = "dmarc"
           THEN /\ EnterCheck(t, "url_analyzer", "dkim", frame[t].domain)
                /\ url_security' = [url_security EXCEPT ![t].results = Gathered(t)]
           ELSE /\ EnterCheck(t, "url_analyzer", "spf", get_domain(us.urls[us.index + 1]))
                /\ url_security' = [url_security EXCEPT ![t].results = Gathered(t),
                                                        ![t].index = @ + 1]
    /\ UNCHANGED <<dns_cache, cache_lock, first_return, calls_made>>

(***************************************************************************)
(* score_backend/url_analyzer.py: analyze_url and analyze_urls_parallel    *)
(***************************************************************************)

\* max_workers of the pool.
MAX_WORKERS == 5

\* is_ip_address on the hosts of the model: ipaddress.ip_address accepts an
\* IPv4 literal, an IPv6 literal, and an IPv6 literal with a zone after %.
is_ip_address(host) ==
    host \in { "1.2.3.4", "2001:db8::1", "::1%aaaaaaaaaaaaaaaaaaaaaaaa.paypa1.com" }

\* detect_lookalike on the hosts of the model: SequenceMatcher gives
\* paypa1.com the ratio 0.9 with paypal.com, above SIMILARITY_THRESHOLD.
detect_lookalike(host) ==
    IF host \in { "paypa1.com", "login.secure.account.verify.paypa1.com",
                  "::1%aaaaaaaaaaaaaaaaaaaaaaaa.paypa1.com" }
    THEN << "Domain looks similar to trusted domain 'paypal.com'" >>
    ELSE PyNone

\* suspicious_domain_pattern on the hosts of the model: a host longer than
\* 30, one ending in a risky TLD, one with four digits in a row.
suspicious_domain_pattern(host) ==
    host \in { "login.secure.account.verify.paypa1.com",
               "::1%aaaaaaaaaaaaaaaaaaaaaaaa.paypa1.com", "a1234.xyz", "2001:db8::1" }

\* The checks analyze_url makes without DNS: the score and the reasons.
FastChecks(scheme, domain) ==
    LET a == IF scheme = "http"
             THEN [score |-> 1, reasons |-> << "Uses HTTP instead of HTTPS" >>]
             ELSE [score |-> 0, reasons |-> << >>]
        b == IF is_ip_address(domain)
             THEN [score |-> a.score + 2,
                   reasons |-> Append(a.reasons, "Uses IP address instead of domain")]
             ELSE a
        c == IF Truthy(detect_lookalike(domain))
             THEN [score |-> b.score + 2,
                   reasons |-> b.reasons \o detect_lookalike(domain)]
             ELSE b
    IN  IF suspicious_domain_pattern(domain)
        THEN [score |-> c.score + 2,
              reasons |-> Append(c.reasons, "Suspicious domain pattern")]
        ELSE c

\* The four DNS checks of analyze_url, in the order it calls them.
CheckOrder == << "spf", "dmarc", "dkim", "ip" >>

CheckPenalty ==
    [ spf |-> 1, dmarc |-> 2, dkim |-> 1, ip |-> 1 ]

CheckReason ==
    [ spf |-> "No SPF record", dmarc |-> "No DMARC record",
      dkim |-> "No DKIM record", ip |-> "Domain does not resolve" ]

\* The score and the reasons after the first i checks have been accounted.
RECURSIVE AddChecks(_, _, _)
AddChecks(fast, results, i) ==
    IF i = 0 THEN fast
    ELSE LET prev == AddChecks(fast, results, i - 1)
             kind == CheckOrder[i]
         IN  IF ~Truthy(results[kind])
             THEN [score |-> prev.score + CheckPenalty[kind],
                   reasons |-> Append(prev.reasons, CheckReason[kind])]
             ELSE prev

\* A faulty variant: a score of 6 still counts as Suspicious.
UrlVerdict_SixIsSuspicious(score) ==
    IF score <= 2 THEN "Safe"
    ELSE IF score <= 6 THEN "Suspicious"
    ELSE "Phishing"

\* The verdict of a URL whose DNS checks were made.
UrlVerdict(score) ==
    IF score <= 2 THEN "Safe"
    ELSE IF score <= 5 THEN "Suspicious"
    ELSE "Phishing"

URLSecurityReport(url, domain, score, verdict, reasons) ==
    [ url |-> url, domain |-> domain, score |-> score, verdict |-> verdict,
      reasons |-> reasons ]

NoResults == [ k \in Kinds |-> PyNone ]

NoReport == URLSecurityReport("", "", 0, "", << >>)

\* analyze_url(url) as one call, results being what has_spf, has_dmarc,
\* has_dkim and domain_resolves return for the domain when they are called:
\* whether the call raised, whether the four checks were called, the report.
analyze_url(url, results) ==
    LET parsed == urlparse(url)
        domain == get_domain(url)
        fast   == FastChecks(parsed.scheme, domain)
        final  == AddChecks(fast, results, Len(CheckOrder))
    IN  IF parsed.raises
        THEN [ raised |-> TRUE, dns_called |-> FALSE, report |-> NoReport ]
        ELSE IF fast.score >= 6
        THEN [ raised |-> FALSE, dns_called |-> FALSE,
               report |-> URLSecurityReport(url, domain, fast.score, "Phishing",
                                            fast.reasons) ]
        ELSE [ raised |-> FALSE, dns_called |-> TRUE,
               report |-> URLSecurityReport(url, domain, final.score,
                                            UrlVerdict(final.score),
                                            final.reasons) ]

\* The URLs analyze_url is given on its own.
ScoredUrls ==
    URLs \cup { "http://paypa1.com/", "http://1.2.3.4/", "http://[2001:db8::1]/",
                "http://login.secure.account.verify.paypa1.com/",
                "https://a1234.xyz/",
                "https://[::1%aaaaaaaaaaaaaaaaaaaaaaaa.paypa1.com]/",
                "http://[::1%aaaaaaaaaaaaaaaaaaaaaaaa.paypa1.com]/" }

IdleTask ==
    [ active |-> FALSE, url |-> "", domain |-> "", scheme |-> "",
      results |-> NoResults ]

\* A future: not created yet, queued, running, or finished with a report or
\* with the exception analyze_url raised.
NoFuture == [ state |-> "none" ]

UrlLists == UNION { [1..n -> URLs] : n \in 0..MaxUrls }

\* The lists of the batch specification: every list shorter than MaxUrls,
\* and the lists of MaxUrls URLs that start with the plain https URL or with
\* the URL urlparse rejects.
BatchLists ==
    { list \in UrlLists :
        Len(list) = MaxUrls => list[1] \in { "https://a.com/", "http://[bad" } }

IdleBatch ==
    /\ urls = << >>
    /\ batch_pc = "idle"
    /\ futures = [ i \in 1..MaxUrls |-> NoFuture ]
    /\ yielded = {}
    /\ reports = << >>
    /\ task = [ t \in Threads |-> IdleTask ]

\* The call analyze_url(url) of thread t ends: with a report, or raising.
\* In the caller's thread it is the one call of the list comprehension, so
\* analyze_urls_parallel returns the list or the exception leaves it; in a
\* pool thread the outcome is stored in the future.
EndAnalyzeUrl(t, raised, report) ==
    /\ pc' = [pc EXCEPT ![t] = "idle"]
    /\ task' = [task EXCEPT ![t] = IdleTask]
    /\ IF t = 0
       THEN /\ batch_pc' = IF raised THEN "raised" ELSE "returned"
            /\ reports' = IF raised THEN reports ELSE Append(reports, report)
            /\ UNCHANGED futures
       ELSE /\ futures' = [futures EXCEPT ![t] =
                              [ state |-> "finished", raised |-> raised,
                                report |-> report ]]
            /\ UNCHANGED <<batch_pc, reports>>

\* analyze_url up to its first DNS check: get_domain and urlparse, the checks
\* without DNS, and the verdict Phishing at once for a score of 6 or more.
AnalyzeUrlStart(t) ==
    /\ pc[t] = "analyze_url"
    /\ LET url    == task[t].url
           parsed == urlparse(url)
           domain == get_domain(url)
           fast   == FastChecks(parsed.scheme, domain)
       IN  IF parsed.raises
           THEN /\ EndAnalyzeUrl(t, TRUE, NoReport)
                /\ UNCHANGED frame
           ELSE IF fast.score >= 6
           THEN /\ EndAnalyzeUrl(t, FALSE,
                        URLSecurityReport(url, domain, fast.score, "Phishing",
                                          fast.reasons))
                /\ UNCHANGED frame
           ELSE /\ EnterCheck(t, "url_analyzer", CheckOrder[1], domain)
                /\ task' = [task EXCEPT ![t].domain = domain,
                                        ![t].scheme = parsed.scheme]
                /\ UNCHANGED <<batch_pc, reports, futures>>
    /\ UNCHANGED <<dns_cache, cache_lock, first_return, calls_made, urls, yielded>>

\* The position of a check in CheckOrder.
CheckIndex(kind) == CHOOSE i \in 1..Len(CheckOrder) : CheckOrder[i] = kind

\* A DNS check returns to analyze_url: the next check is called, or after the
\* last one the score, the verdict and the report are made.
AnalyzeUrlNext(t) ==
    /\ pc[t] = "return"
    /\ task[t].active
    /\ LET kind    == frame[t].kind
           results == [task[t].results EXCEPT ![kind] = frame[t].value]
           i       == CheckIndex(kind)
           fast    == FastChecks(task[t].scheme, task[t].domain)
           final   == AddChecks(fast, results, Len(CheckOrder))
       IN  IF i < Len(CheckOrder)
           THEN /\ EnterCheck(t, "url_analyzer", CheckOrder[i + 1], task[t].domain)
                /\ task' = [task EXCEPT ![t].results = results]
                /\ UNCHANGED <<batch_pc, reports, futures>>
           ELSE /\ EndAnalyzeUrl(t, FALSE,
                        URLSecurityReport(task[t].url, task[t].domain,
                                          final.score, UrlVerdict(final.score),
                                          final.reasons))
                /\ frame' = [frame EXCEPT ![t] = IdleFrame]
    /\ UNCHANGED <<dns_cache, cache_lock, first_return, calls_made, urls, yielded>>

StartedTask(url) == [IdleTask EXCEPT !.active = TRUE, !.url = url]

\* analyze_urls_parallel(urls) is called.  A list of at most one URL is
\* analysed in the calling thread; a longer one goes to the pool.
CallAnalyzeUrlsParallel ==
    /\ batch_pc = "idle"
    /\ IF Len(urls) <= 1
       THEN IF Len(urls) = 0
            THEN /\ batch_pc' = "returned"
                 /\ UNCHANGED <<task, pc>>
            ELSE /\ batch_pc' = "inline"
                 /\ task' = [task EXCEPT ![0] = StartedTask(urls[1])]
                 /\ pc' = [pc EXCEPT ![0] = "analyze_url"]
       ELSE /\ batch_pc' = "submit"
            /\ UNCHANGED <<task, pc>>
    /\ UNCHANGED <<dns_cache, cache_lock, frame, first_return, calls_made,
                   urls, futures, yielded, reports>>

\* executor.submit(analyze_url, url) for the next URL of the list.
Submit ==
    /\ batch_pc = "submit"
    /\ LET i == CHOOSE j \in 1..Len(urls) :
                    /\ futures[j].state = "none"
                    /\ \A k \in 1..(j - 1) : futures[k].state # "none"
       IN  /\ futures' = [futures EXCEPT ![i] = [ state |-> "pending" ]]
           /\ batch_pc' = IF i = Len(urls) THEN "as_completed" ELSE "submit"
    /\ UNCHANGED <<dnsVars, urls, yielded, reports, task>>

\* A pool without a limit on its threads: a faulty variant.
HasIdleWorker_Unbounded(running) == TRUE

\* ThreadPoolExecutor(max_workers=MAX_WORKERS): a queued call is taken only
\* while fewer than MAX_WORKERS calls are running.
HasIdleWorker(running) == running < MAX_WORKERS

\* A pool thread takes a queued call; at most MAX_WORKERS calls run at once.
StartTask(i) ==
    /\ i \in 1..Len(urls)
    /\ futures[i].state = "pending"
    /\ HasIdleWorker(Cardinality({ j \in DOMAIN futures : futures[j].state = "running" }))
    /\ futures' = [futures EXCEPT ![i] = [ state |-> "running" ]]
    /\ task' = [task EXCEPT ![i] = StartedTask(urls[i])]
    /\ pc' = [pc EXCEPT ![i] = "analyze_url"]
    /\ UNCHANGED <<dns_cache, cache_lock, frame, first_return, calls_made,
                   urls, batch_pc, yielded, reports>>

\* One round of the as_completed loop: a finished future is yielded and its
\* report appended.  If the call raised, the handler builds the report from
\* get_domain(url), which raises in its turn for a URL urlparse rejects; the
\* exception then leaves the loop.
Collect(i) ==
    /\ batch_pc = "as_completed"
    /\ i \in 1..Len(urls)
    /\ i \notin yielded
    /\ futures[i].state = "finished"
    /\ yielded' = yielded \cup {i}
    /\ IF ~futures[i].raised
       THEN /\ reports' = Append(reports, futures[i].report)
            /\ UNCHANGED batch_pc
       ELSE IF urlparse(urls[i]).raises
       THEN /\ batch_pc' = "shutdown"
            /\ UNCHANGED reports
       ELSE /\ reports' = Append(reports,
                   URLSecurityReport(urls[i], get_domain(urls[i]), 1, "Suspicious",
                                     << "error" >>))
            /\ UNCHANGED batch_pc
    /\ UNCHANGED <<dnsVars, urls, futures, task>>

\* The with block is left: shutdown(wait=True) returns once every submitted
\* call has ended.  The function then returns the reports, or the exception
\* that left the loop goes on to the caller.
LeaveExecutor ==
    /\ \/ batch_pc = "as_completed" /\ yielded = 1..Len(urls)
       \/ batch_pc = "shutdown"
    /\ \A i \in 1..Len(urls) : futures[i].state = "finished"
    /\ batch_pc' = IF batch_pc = "shutdown" THEN "raised" ELSE "returned"
    /\ UNCHANGED <<dnsVars, urls, futures, yielded, reports, task>>

\* What the caller of analyze_urls_parallel gets: the list, or an exception.
BatchOutcome ==
    [ state |-> batch_pc,
      reports |-> IF batch_pc = "returned" THEN reports ELSE << >> ]

NoOutcome == [ state |-> "idle", reports |-> << >> ]

\* The number of calls of analyze_urls_parallel on the same list.
MaxRuns == 2

\* The caller keeps what the call gave and calls analyze_urls_parallel again
\* with the same list; _dns_cache keeps the entries of the earlier call.
CallAgain ==
    /\ batch_pc \in { "returned", "raised" }
    /\ run < MaxRuns
    /\ run' = run + 1
    /\ first_outcome' = BatchOutcome
    /\ batch_pc' = "idle"
    /\ futures' = [ i \in 1..MaxUrls |-> NoFuture ]
    /\ yielded' = {}
    /\ reports' = << >>
    /\ UNCHANGED <<resolver, dnsVars, urls, task>>

(***************************************************************************)
(* src/main.py: POST /analyze_email_route.  The server handles requests in *)
(* threads of one process; the upload folder is shared by all of them.     *)
(***************************************************************************)

\* The requests handled at the same time.
Requests == { 1, 2 }

\* The last second of the clock of the model.
MaxClock == 1

\* The filenames of the uploads.
UploadNames == { "a.eml", "b.eml", "x.txt" }

\* The uploads: the filename and the body of the message in the file.
Uploads ==
    { [ filename |-> "a.eml", body |-> "hello" ],
      [ filename |-> "a.eml",
        body |-> "see https://a.com/ and http://a.com/login" ],
      [ filename |-> "b.eml", body |-> "see https://a.com/" ],
      [ filename |-> "b.eml", body |-> "see http://[bad" ],
      [ filename |-> "x.txt", body |-> "hello" ] }

\* file.filename.endswith('.eml') on the filenames of the model.
EndsWithEml(filename) == filename \in { "a.eml", "b.eml" }

\* temp_path: UPLOAD_FOLDER/temp_<timestamp>_<filename>, the timestamp being
\* datetime.now() formatted to the second.
TempPath(timestamp, filename) == << timestamp, filename >>

TempPaths == { TempPath(t, n) : t \in 0..MaxClock, n \in UploadNames }

\* The content of a path that does not exist; the file uploaded by request r
\* has the content r.
NoFile == 0

NoPath == TempPath(0, "")

IdleUpload ==
    /\ clock = 0
    /\ upload = [ r \in Requests |-> [ filename |-> "a.eml", body |-> "hello" ] ]
    /\ req_pc = [ r \in Requests |-> "done" ]
    /\ temp_path = [ r \in Requests |-> NoPath ]
    /\ files = [ path \in TempPaths |-> NoFile ]
    /\ loaded = [ r \in Requests |-> << >> ]
    /\ response = [ r \in Requests |-> 0 ]

\* A second passes.
Tick ==
    /\ clock < MaxClock
    /\ clock' = clock + 1
    /\ UNCHANGED <<upload, req_pc, temp_path, files, loaded, response>>

\* Lines 29-43: the request is refused with 400 unless it carries a file
\* whose name ends in .eml; otherwise the name of the temporary file is made
\* from the current second and the name of the upload.
NameTempFile(r) ==
    /\ req_pc[r] = "start"
    /\ IF ~EndsWithEml(upload[r].filename)
       THEN /\ response' = [response EXCEPT ![r] = 400]
            /\ req_pc' = [req_pc EXCEPT ![r] = "done"]
            /\ UNCHANGED temp_path
       ELSE /\ temp_path' = [temp_path EXCEPT ![r] =
                                 TempPath(clock, upload[r].filename)]
            /\ req_pc' = [req_pc EXCEPT ![r] = "save"]
            /\ UNCHANGED response
    /\ UNCHANGED <<clock, upload, files, loaded>>

\* Line 44: file.save(temp_path) writes the upload, over any file there.
SaveUpload(r) ==
    /\ req_pc[r] = "save"
    /\ files' = [files EXCEPT ![temp_path[r]] = r]
    /\ req_pc' = [req_pc EXCEPT ![r] = "load_email"]
    /\ UNCHANGED <<clock, upload, temp_path, loaded, response>>

\* The response is made and the finally block is next.
EndAnalysis(r, status) ==
    /\ response' = [response EXCEPT ![r] = status]
    /\ req_pc' = [req_pc EXCEPT ![r] = "cleanup"]

\* Lines 48-76: calculate_comprehensive_phishing_score(temp_path) up to its
\* return or its first DNS check, in the thread of the request.  Its handler
\* returns None, and the response is a 500, when the import of analyzer
\* fails (before the file is opened), when open raises for a file that is
\* not there (load_email opens it, analyze_email opens it again), and when
\* analyze_email raises on a URL of the body it read.  Otherwise the dict is
\* returned, at once or after the DNS checks of the URLs of the body, and
\* the response is a 200.
ReadTempFile(r) ==
    /\ req_pc[r] \in { "load_email", "analyze_email" }
    /\ LET content == files[temp_path[r]]
           body    == upload[content].body
       IN  IF req_pc[r] = "load_email" /\ failing_module = "analyzer"
           THEN /\ EndAnalysis(r, 500)
                /\ UNCHANGED <<loaded, url_security, pc, frame>>
           ELSE IF content = NoFile
           THEN /\ EndAnalysis(r, 500)
                /\ UNCHANGED <<loaded, url_security, pc, frame>>
           ELSE IF req_pc[r] = "load_email"
           THEN /\ loaded' = [loaded EXCEPT ![r] = Append(@, content)]
                /\ req_pc' = [req_pc EXCEPT ![r] = "analyze_email"]
                /\ UNCHANGED <<response, url_security, pc, frame>>
           ELSE /\ loaded' = [loaded EXCEPT ![r] = Append(@, content)]
                /\ IF analyzer_extract_urls(body).raises
                   THEN /\ EndAnalysis(r, 500)
                        /\ UNCHANGED <<url_security, pc, frame>>
                   ELSE IF ~ReachesDnsChecks(body, providers.url_ml)
                   THEN /\ EndAnalysis(r, 200)
                        /\ UNCHANGED <<url_security, pc, frame>>
                   ELSE /\ EnterUrlSecurityLoop(r, extract_urls(body))
                        /\ req_pc' = [req_pc EXCEPT ![r] = "url_security"]
                        /\ UNCHANGED response
    /\ UNCHANGED <<clock, upload, temp_path, files>>
    /\ UNCHANGED <<dns_cache, cache_lock, first_return, calls_made>>

\* The last DNS check of the request has returned: the dict is returned and
\* the response is a 200.
Respond(r) ==
    /\ req_pc[r] = "url_security"
    /\ pc[r] = "return"
    /\ url_security[r].active
    /\ LastCheck(r)
    /\ EndAnalysis(r, 200)
    /\ pc' = [pc EXCEPT ![r] = "idle"]
    /\ frame' = [frame EXCEPT ![r] = IdleFrame]
    /\ url_security' = [url_security EXCEPT ![r] = IdleUrlSecurity]
    /\ UNCHANGED <<clock, upload, temp_path, files, loaded>>
    /\ UNCHANGED <<dns_cache, cache_lock, first_return, calls_made>>

\* Lines 81-87: the finally block removes the temporary file if it exists.
CleanUp(r) ==
    /\ req_pc[r] = "cleanup"
    /\ files' = [files EXCEPT ![temp_path[r]] = NoFile]
    /\ req_pc' = [req_pc EXCEPT ![r] = "done"]
    /\ UNCHANGED <<clock, upload, temp_path, loaded, response>>

(***************************************************************************)
(* phishingtool/main.py: the detector calls of main, one at a time and in  *)
(* any order, on the objects analyze_email returned.                       *)
(***************************************************************************)

\* parser.analyze_email for a message whose URLs parse: the dict main reads
\* metadata, urls, attachments and raw_msg from.
ParsedData(msg) ==
    [ metadata |-> extract_metadata(msg),
      urls |-> parser_extract_urls(msg.Body).urls,
      attachments |-> msg.Attachments,
      raw_msg |-> msg ]

\* The call main makes to a module, on the parsed data.
Detect(module, data) ==
    CASE module = "auth_checks" -> run_auth_checks(data.metadata.authentication)
      [] module = "infrastructure_checks" -> run_infrastructure_checks(data.metadata)
      [] module = "mime_checks" -> run_mime_checks(data.raw_msg)
      [] module = "domain_checks" -> run_domain_checks(data.metadata)
      [] module = "url_checks" -> run_url_checks(data.urls)
      [] module = "attachment_checks" -> run_attachment_checks(data.attachments)
      [] module = "header_checks" -> run_header_checks(data.metadata)
      [] module = "timing_checks" -> run_timing_checks(data.metadata)

(***************************************************************************)
(* The calls of main, statement by statement.  A frame holds what a call   *)
(* can reach: objects.args, the objects it was passed, by parameter;       *)
(* objects.locals, the objects it created, by the name first bound to      *)
(* them; env, the place of the object each name is bound to, a path into   *)
(* objects.  A name bound by get, by indexing or by a for loop is bound to *)
(* the place inside the object it was read from, so a write through that   *)
(* name lands in that object.  A helper called with a name of its caller   *)
(* runs in the caller's frame: no name of caller and helper stands for two *)
(* objects.  The values of the statements are taken from the functions the *)
(* source calls to compute them.                                           *)
(***************************************************************************)

\* d[k] = v on a dict; also a binding added to an environment.
Put(d, k, v) == [ n \in DOMAIN d \cup { k } |-> IF n = k THEN v ELSE d[n] ]

\* No object: {} as a dict, and the locals of a call that has just begun.
NoObjects == [ n \in { } |-> PyNone ]

RECURSIVE ValueAt(_, _)
\* The object at a place.
ValueAt(v, place) ==
    IF Len(place) = 0 THEN v ELSE ValueAt(v[Head(place)], Tail(place))

RECURSIVE WriteAt(_, _, _)
\* The objects when the object at a place has become `new`.
WriteAt(v, place, new) ==
    IF Len(place) = 0 THEN new
    ELSE [ v EXCEPT ![Head(place)] = WriteAt(@, Tail(place), new) ]

\* The frame on entry: every parameter is bound to the object passed.
Enter(args) ==
    [ env |-> [ p \in DOMAIN args |-> << "args", p >> ],
      objects |-> [ args |-> args, locals |-> NoObjects ] ]

\* The place of  name[key]...  for the target << name, key, ... >>.
PlaceOf(fr, target) == fr.env[Head(target)] \o Tail(target)

\* The object a name is bound to.
Read(fr, name) == ValueAt(fr.objects, fr.env[name])

\* name = <an object made by this statement>: a literal, or the value of an
\* expression that builds a new object.
Create(fr, name, value) ==
    [ env |-> Put(fr.env, name, << "locals", name >>),
      objects |-> [ fr.objects EXCEPT !.locals = Put(@, name, value) ] ]

\* name = <an object that exists>, given by its target.
Alias(fr, name, target) ==
    [ fr EXCEPT !.env = Put(@, name, PlaceOf(fr, target)) ]

\* name = of.get(key, default); with a key that exists also  name = of[key]
\* and the binding of the loop variable of  for name in of.
Item(fr, name, of, key, default) ==
    IF key \in DOMAIN Read(fr, of)
    THEN Alias(fr, name, << of, key >>)
    ELSE Create(fr, name, default)

\* The value of  of.get(key, default).
Get(fr, of, key, default) ==
    IF key \in DOMAIN Read(fr, of) THEN Read(fr, of)[key] ELSE default

\* target.append(value)
AppendTo(fr, target, value) ==
    LET place == PlaceOf(fr, target) IN
    [ fr EXCEPT !.objects =
        WriteAt(@, place, Append(ValueAt(@, place), value)) ]

\* target.add(value) on a set.
AddTo(fr, target, value) ==
    LET place == PlaceOf(fr, target) IN
    [ fr EXCEPT !.objects =
        WriteAt(@, place, ValueAt(@, place) \cup { value }) ]

\* target[key] = value
SetItem(fr, target, key, value) ==
    LET place == PlaceOf(fr, target) IN
    [ fr EXCEPT !.objects =
        WriteAt(@, place, Put(ValueAt(@, place), key, value)) ]

\* The statements Rest in the frame the statement before them left; that
\* frame is evaluated once.
Do(fr, Rest(_)) == CHOOSE after \in { Rest(f) : f \in { fr } } : TRUE

\* return name: the object returned and the argument objects as the call
\* leaves them.
Leave(fr, name) ==
    [ result |-> Read(fr, name), args |-> fr.objects.args ]

\* auth_checks.run_auth_checks, lines 97-118.  Line 103 binds the name
\* auth_data to a new dict; the dict returned is a literal.
run_auth_checks_statements(auth_data) ==
    Do(Enter([ auth_data |-> auth_data ]), LAMBDA f0 :
    Do(IF DOMAIN Read(f0, "auth_data") = { }
           THEN Create(f0, "auth_data", NoObjects) ELSE f0, LAMBDA f1 :
    Do(Item(f1, "spf", "auth_data", "spf", "None"), LAMBDA f2 :
    Do(Item(f2, "dkim", "auth_data", "dkim", "None"), LAMBDA f3 :
    Do(Item(f3, "dmarc", "auth_data", "dmarc", "None"), LAMBDA f4 :
    LET spf == Read(f4, "spf") IN
    LET dkim == Read(f4, "dkim") IN
    LET dmarc == Read(f4, "dmarc") IN
    Do(Create(f4, "return",
           [ spf_fail |-> spf = "fail",
           dkim_fail |-> dkim = "fail",
           dmarc_fail |-> dmarc = "fail",
           auth_suspicious |->
           spf = "fail" \/ dkim = "fail" \/ dmarc = "fail" ]), LAMBDA f5 :
    Leave(f5, "return")))))))

\* infrastructure_checks.run_infrastructure_checks, lines 56-79:
\* received_headers is the list inside metadata; has_private_ip,
\* helo_mismatch and relay_anomaly hold no write.
run_infrastructure_checks_statements(metadata) ==
    Do(Enter([ metadata |-> metadata ]), LAMBDA f0 :
    Do(Item(f0, "received_headers", "metadata", "received_headers", << >>), LAMBDA f1 :
    Do(Item(f1, "received_count", "metadata", "received_count", 0), LAMBDA f2 :
    Do(Item(f2, "helo", "metadata", "helo", PyNone), LAMBDA f3 :
    Do(Item(f3, "from_domain", "metadata", "from_domain", PyNone), LAMBDA f4 :
    Do(Item(f4, "origin_ip", "metadata", "originating_ip", PyNone), LAMBDA f5 :
    Do(Create(f5, "results",
           [ originating_ip |-> Read(f5, "origin_ip"),
           relay_count |-> Read(f5, "received_count"),
           private_ip_present |->
           has_private_ip(Read(f5, "received_headers")),
           helo_mismatch |->
           helo_mismatch(Read(f5, "helo"), Read(f5, "from_domain")),
           relay_anomaly |->
           relay_anomaly(Read(f5, "received_count")) ]), LAMBDA f6 :
    LET r == Read(f6, "results") IN
    Do(SetItem(f6, << "results" >>, "infrastructure_suspicious",
           r.private_ip_present \/ r.helo_mismatch \/ r.relay_anomaly), LAMBDA f7 :
    Leave(f7, "results")))))))))

RECURSIVE detect_encodings_statements(_, _)
\* mime_checks.detect_encodings, lines 16-19: the loop over the parts that
\* carry a Content-Transfer-Encoding; each adds to the set `encodings`.
detect_encodings_statements(fr, left) ==
    IF left = { } THEN fr
    ELSE LET encoding == CHOOSE e \in left : TRUE IN
         Do(AddTo(fr, << "encodings" >>, encoding), LAMBDA f1 :
         detect_encodings_statements(f1, left \ { encoding }))

\* mime_checks.run_mime_checks, lines 57-71, with detect_encodings, lines
\* 12-21: `encodings` is a new set, its list a new list.  Of the dict
\* literal the keys encodings_used and suspicious_encoding are kept; the
\* other three hold a str, a bool and an int read from msg.
run_mime_checks_statements(msg) ==
    Do(Enter([ msg |-> msg ]), LAMBDA f0 :
    Do(Create(f0, "encodings", { }), LAMBDA f1 :
    Do(detect_encodings_statements(f1, Read(f1, "msg").Encodings), LAMBDA f2 :
    Do(Create(f2, "encodings", Read(f2, "encodings")), LAMBDA f3 :
    Do(Create(f3, "results",
           [ encodings_used |-> Read(f3, "encodings"),
           suspicious_encoding |->
           suspicious_encoding(Read(f3, "encodings")) ]), LAMBDA f4 :
    Leave(f4, "results"))))))

\* run_domain_checks with  results = metadata  in place of the dict literal:
\* a faulty variant that stores its findings in the dict it was given.
run_domain_checks_statements_IntoMetadata(metadata) ==
    Do(Enter([ metadata |-> metadata ]), LAMBDA f0 :
    Do(Item(f0, "from_domain", "metadata", "from_domain", PyNone), LAMBDA f1 :
    Do(Alias(f1, "results", << "metadata" >>), LAMBDA f2 :
    Do(SetItem(f2, << "results" >>, "suspicious_tld",
           has_suspicious_tld(Read(f2, "from_domain"))), LAMBDA f3 :
    Do(SetItem(f3, << "results" >>, "spoofed_domain_pattern",
           looks_like_spoofed(Read(f3, "from_domain"))), LAMBDA f4 :
    LET r == Read(f4, "results") IN
    Do(SetItem(f4, << "results" >>, "domain_suspicious",
           \/ Truthy(r.reply_to_mismatch)
           \/ Truthy(r.return_path_mismatch)
           \/ Truthy(r.message_id_mismatch)
           \/ r.suspicious_tld
           \/ r.spoofed_domain_pattern), LAMBDA f5 :
    Leave(f5, "results")))))))

\* domain_checks.run_domain_checks, lines 55-78; has_suspicious_tld and
\* looks_like_spoofed hold no write.
run_domain_checks_statements(metadata) ==
    Do(Enter([ metadata |-> metadata ]), LAMBDA f0 :
    Do(Item(f0, "from_domain", "metadata", "from_domain", PyNone), LAMBDA f1 :
    Do(Item(f1, "reply_to_domain", "metadata", "reply_to_domain", PyNone), LAMBDA f2 :
    Do(Item(f2, "return_path_domain", "metadata", "return_path_domain", PyNone), LAMBDA f3 :
    Do(Item(f3, "message_id_domain", "metadata", "message_id_domain", PyNone), LAMBDA f4 :
    Do(Create(f4, "results",
           [ reply_to_mismatch |->
           Get(f4, "metadata", "reply_to_mismatch", PyNone),
           return_path_mismatch |->
           Get(f4, "metadata", "return_path_mismatch", PyNone),
           message_id_mismatch |->
           Get(f4, "metadata", "message_id_mismatch", PyNone),
           suspicious_tld |->
           has_suspicious_tld(Read(f4, "from_domain")),
           spoofed_domain_pattern |->
           looks_like_spoofed(Read(f4, "from_domain")) ]), LAMBDA f5 :
    LET r == Read(f5, "results") IN
    Do(SetItem(f5, << "results" >>, "domain_suspicious",
           \/ Truthy(r.reply_to_mismatch)
           \/ Truthy(r.return_path_mismatch)
           \/ Truthy(r.message_id_mismatch)
           \/ r.suspicious_tld
           \/ r.spoofed_domain_pattern), LAMBDA f6 :
    Leave(f6, "results"))))))))

RECURSIVE url_loop_statements(_, _)
\* url_checks.run_url_checks, lines 81-100: the body of the loop from the
\* i-th URL on.  url is the dict inside the list urls; the hosts of the
\* model are no IP literals, carry no suspicious TLD and at most three dots,
\* and no URL is longer than 75 characters, so of the five assignments to
\* `results` the one of line 100 runs.
url_loop_statements(fr, i) ==
    IF i > Len(Read(fr, "urls")) THEN fr
    ELSE Do(Item(fr, "url", "urls", i, PyNone), LAMBDA f1 :
         Do(Item(f1, "domain", "url", "domain", PyNone), LAMBDA f2 :
         Do(Item(f2, "full_url", "url", "full_url", PyNone), LAMBDA f3 :
         Do(Item(f3, "scheme", "url", "scheme", PyNone), LAMBDA f4 :
         Do(IF is_insecure_scheme(Read(f4, "scheme"))
                THEN SetItem(f4, << "results" >>, "insecure_http", TRUE)
                ELSE f4, LAMBDA f5 :
         url_loop_statements(f5, i + 1))))))

\* url_checks.run_url_checks, lines 70-111.
run_url_checks_statements(found) ==
    Do(Enter([ urls |-> found ]), LAMBDA f0 :
    Do(Create(f0, "results",
           [ total_urls |-> Len(Read(f0, "urls")),
           ip_based_url |-> FALSE,
           suspicious_tld_url |-> FALSE,
           long_url_detected |-> FALSE,
           too_many_subdomains |-> FALSE,
           insecure_http |-> FALSE ]), LAMBDA f1 :
    Do(url_loop_statements(f1, 1), LAMBDA f2 :
    LET r == Read(f2, "results") IN
    Do(SetItem(f2, << "results" >>, "url_suspicious",
           \/ r.ip_based_url
           \/ r.suspicious_tld_url
           \/ r.long_url_detected
           \/ r.too_many_subdomains
           \/ r.insecure_http), LAMBDA f3 :
    Leave(f3, "results")))))

RECURSIVE attachment_loop_statements(_, _)
\* attachment_checks.run_attachment_checks, lines 70-84: the body of the
\* loop from the i-th attachment on.  An attachment of the model is its
\* filename; the list appended to is results["filenames"].
attachment_loop_statements(fr, i) ==
    IF i > Len(Read(fr, "attachments")) THEN fr
    ELSE Do(Item(fr, "att", "attachments", i, PyNone), LAMBDA f1 :
         Do(Alias(f1, "filename", << "att" >>), LAMBDA f2 :
         Do(Create(f2, "ext", get_extension(Read(f2, "filename"))), LAMBDA f3 :
         Do(AppendTo(f3, << "results", "filenames" >>,
                Read(f3, "filename")), LAMBDA f4 :
         Do(IF has_double_extension(Read(f4, "filename"))
                THEN SetItem(f4, << "results" >>, "double_extension", TRUE)
                ELSE f4, LAMBDA f5 :
         Do(IF is_executable(Read(f5, "ext"))
                THEN SetItem(f5, << "results" >>, "dangerous_extension", TRUE)
                ELSE f5, LAMBDA f6 :
         Do(IF has_macro(Read(f6, "ext"))
                THEN SetItem(f6, << "results" >>, "macro_file", TRUE)
                ELSE f6, LAMBDA f7 :
         attachment_loop_statements(f7, i + 1))))))))

\* attachment_checks.run_attachment_checks, lines 60-93.
run_attachment_checks_statements(attachments) ==
    Do(Enter([ attachments |-> attachments ]), LAMBDA f0 :
    Do(Create(f0, "results",
           [ attachment_count |-> Len(Read(f0, "attachments")),
           dangerous_extension |-> FALSE,
           double_extension |-> FALSE,
           macro_file |-> FALSE,
           filenames |-> << >> ]), LAMBDA f1 :
    Do(attachment_loop_statements(f1, 1), LAMBDA f2 :
    LET r == Read(f2, "results") IN
    Do(SetItem(f2, << "results" >>, "attachment_suspicious",
           r.dangerous_extension \/ r.double_extension \/ r.macro_file), LAMBDA f3 :
    Leave(f3, "results")))))

RECURSIVE missing_required_headers_statements(_, _)
\* header_checks.missing_required_headers, lines 24-26: the loop from the
\* i-th required field on; the list appended to is `missing`.
missing_required_headers_statements(fr, i) ==
    IF i > Len(REQUIRED_HEADERS) THEN fr
    ELSE LET field == REQUIRED_HEADERS[i] IN
         Do(IF ~Truthy(Get(fr, "metadata", field, PyNone))
                THEN AppendTo(fr, << "missing" >>, field)
                ELSE fr, LAMBDA f1 :
         missing_required_headers_statements(f1, i + 1))

RECURSIVE duplicate_headers_statements(_, _)
\* header_checks.duplicate_headers, lines 38-40: one append to `duplicates`
\* for each key whose value is a list of more than one element.
duplicate_headers_statements(fr, i) ==
    LET keys == duplicate_headers(Read(fr, "metadata")) IN
    IF i > Len(keys) THEN fr
    ELSE Do(AppendTo(fr, << "duplicates" >>, keys[i]), LAMBDA f1 :
         duplicate_headers_statements(f1, i + 1))

\* header_checks.run_header_checks, lines 77-98, with the helpers of lines
\* 20-42 and 62-71: missing, duplicates and long_headers are new lists; no
\* header of the model is longer than 500 characters, so line 69 never runs.
run_header_checks_statements(metadata) ==
    Do(Enter([ metadata |-> metadata ]), LAMBDA f0 :
    Do(Create(f0, "missing", << >>), LAMBDA f1 :
    Do(missing_required_headers_statements(f1, 1), LAMBDA f2 :
    Do(Create(f2, "duplicates", << >>), LAMBDA f3 :
    Do(duplicate_headers_statements(f3, 1), LAMBDA f4 :
    Do(Create(f4, "invalid_msgid",
           invalid_message_id(Get(f4, "metadata", "message_id", PyNone))), LAMBDA f5 :
    Do(Create(f5, "long_headers", << >>), LAMBDA f6 :
    Do(Create(f6, "results",
           [ missing_headers |-> Read(f6, "missing"),
           duplicate_headers |-> Read(f6, "duplicates"),
           invalid_message_id |-> Read(f6, "invalid_msgid"),
           unusually_long_headers |-> Read(f6, "long_headers") ]), LAMBDA f7 :
    Do(SetItem(f7, << "results" >>, "header_suspicious",
           \/ Read(f7, "missing") # << >>
           \/ Read(f7, "duplicates") # << >>
           \/ Read(f7, "invalid_msgid")
           \/ Read(f7, "long_headers") # << >>), LAMBDA f8 :
    Leave(f8, "results"))))))))))

RECURSIVE extract_timestamps_statements(_, _)
\* timing_checks.extract_timestamps, lines 18-34: the loop from the i-th
\* header on; header is the element inside the list it was given, the list
\* appended to is `timestamps`.
extract_timestamps_statements(fr, i) ==
    IF i > Len(Read(fr, "received_headers")) THEN fr
    ELSE Do(Item(fr, "header", "received_headers", i, PyNone), LAMBDA f1 :
         Do(IF Read(f1, "header").time # NoTime
                THEN AppendTo(f1, << "timestamps" >>, Read(f1, "header").time)
                ELSE f1, LAMBDA f2 :
         extract_timestamps_statements(f2, i + 1)))

\* timing_checks.run_timing_checks, lines 87-106, with extract_timestamps,
\* lines 14-36: received_headers is the list inside metadata, timestamps a
\* new list.
run_timing_checks_statements(metadata) ==
    Do(Enter([ metadata |-> metadata ]), LAMBDA f0 :
    Do(Item(f0, "received_headers", "metadata", "received_headers", << >>), LAMBDA f1 :
    Do(Create(f1, "timestamps", << >>), LAMBDA f2 :
    Do(extract_timestamps_statements(f2, 1), LAMBDA f3 :
    Do(Create(f3, "travel_flag", has_time_travel(Read(f3, "timestamps"))), LAMBDA f4 :
    Do(Create(f4, "total_time", total_delivery_time(Read(f4, "timestamps"))), LAMBDA f5 :
    Do(Create(f5, "delay_flag", suspicious_delivery(Read(f5, "total_time"))), LAMBDA f6 :
    Do(Create(f6, "results",
           [ timestamp_count |-> Len(Read(f6, "timestamps")),
           time_travel_detected |-> Read(f6, "travel_flag"),
           total_delivery_seconds |-> Read(f6, "total_time"),
           suspicious_delivery_time |-> Read(f6, "delay_flag") ]), LAMBDA f7 :
    Do(SetItem(f7, << "results" >>, "timing_suspicious",
           Read(f7, "travel_flag") \/ Read(f7, "delay_flag")), LAMBDA f8 :
    Leave(f8, "results"))))))))))

\* The key of all_results and the name calculate_risk_score binds to its
\* dict, for each flag.
TriggerSource ==
    [ spf_fail |-> << "authentication", "auth" >>,
      dkim_fail |-> << "authentication", "auth" >>,
      dmarc_fail |-> << "authentication", "auth" >>,
      domain_suspicious |-> << "domain", "domain" >>,
      url_suspicious |-> << "url", "url" >>,
      attachment_suspicious |-> << "attachment", "att" >>,
      infrastructure_suspicious |-> << "infrastructure", "infra" >>,
      header_suspicious |-> << "header", "header" >>,
      timing_suspicious |-> << "timing", "timing" >>,
      suspicious_encoding |-> << "mime", "mime" >> ]

RECURSIVE trigger_statements(_, _)
\* scoring.calculate_risk_score, lines 50-103: the if statements from the
\* i-th flag on.  The name of the module's dict is bound to the dict inside
\* all_results; score is bound to a new int, the list appended to is
\* `triggered`.
trigger_statements(fr, i) ==
    IF i > Len(TriggerOrder) THEN fr
    ELSE LET flag == TriggerOrder[i] IN
         LET key == TriggerSource[flag][1] IN
         LET name == TriggerSource[flag][2] IN
         Do(Item(fr, name, "all_results", key, NoObjects), LAMBDA f1 :
         Do(IF Get(f1, name, flag, FALSE)
                THEN Create(f1, "score", Read(f1, "score") + WEIGHTS[flag])
                ELSE f1, LAMBDA f2 :
         Do(IF Get(f2, name, flag, FALSE)
                THEN AppendTo(f2, << "triggered" >>, TriggerLabel[flag])
                ELSE f2, LAMBDA f3 :
         trigger_statements(f3, i + 1))))

\* scoring.calculate_risk_score, lines 44-120.
calculate_risk_score_statements(results) ==
    Do(Enter([ all_results |-> results ]), LAMBDA f0 :
    Do(Create(f0, "score", 0), LAMBDA f1 :
    Do(Create(f1, "triggered", << >>), LAMBDA f2 :
    Do(trigger_statements(f2, 1), LAMBDA f3 :
    Do(Create(f3, "score", CapScore(Read(f3, "score"))), LAMBDA f4 :
    Do(Create(f4, "verdict", VerdictOf(Read(f4, "score"))), LAMBDA f5 :
    Do(Create(f5, "return",
           [ score |-> Read(f5, "score"),
           verdict |-> Read(f5, "verdict"),
           triggers |-> Read(f5, "triggered") ]), LAMBDA f6 :
    Leave(f6, "return"))))))))

\* The call main makes to a module, lines 34-41, as statements: the dict
\* returned and the argument as the call leaves it.
Call(module, data) ==
    CASE module = "auth_checks" -> run_auth_checks_statements(data.metadata.authentication)
      [] module = "infrastructure_checks" -> run_infrastructure_checks_statements(data.metadata)
      [] module = "mime_checks" -> run_mime_checks_statements(data.raw_msg)
      [] module = "domain_checks" -> run_domain_checks_statements(data.metadata)
      [] module = "url_checks" -> run_url_checks_statements(data.urls)
      [] module = "attachment_checks" -> run_attachment_checks_statements(data.attachments)
      [] module = "header_checks" -> run_header_checks_statements(data.metadata)
      [] module = "timing_checks" -> run_timing_checks_statements(data.metadata)

\* The parsed data when the call of a module has returned: the object the
\* call was passed is the one its statements left.
ArgumentsAfter(module, data) ==
    LET after == Call(module, data).args IN
    CASE module = "auth_checks" -> [ data EXCEPT !.metadata.authentication = after.auth_data ]
        [] module = "mime_checks" -> [ data EXCEPT !.raw_msg = after.msg ]
        [] module = "url_checks" -> [ data EXCEPT !.urls = after.urls ]
        [] module = "attachment_checks" -> [ data EXCEPT !.attachments = after.attachments ]
        [] OTHER -> [ data EXCEPT !.metadata = after.metadata ]

\* all_results of main: the results under the keys main gives them.
AllResults(results) ==
    [ authentication |-> results["auth_checks"],
      infrastructure |-> results["infrastructure_checks"],
      mime |-> results["mime_checks"],
      domain |-> results["domain_checks"],
      url |-> results["url_checks"],
      attachment |-> results["attachment_checks"],
      header |-> results["header_checks"],
      timing |-> results["timing_checks"] ]

ModuleNames == { DetectorModules[i] : i \in 1..Len(DetectorModules) }

IdleDetectors ==
    /\ parsed_data = NoResult
    /\ module_results = [ m \in ModuleNames |-> NoResult ]
    /\ risk_report = NoResult

\* The module main stores each key of all_results from.
ResultKey ==
    [ auth_checks |-> "authentication",
      infrastructure_checks |-> "infrastructure",
      mime_checks |-> "mime",
      domain_checks |-> "domain",
      url_checks |-> "url",
      attachment_checks |-> "attachment",
      header_checks |-> "header",
      timing_checks |-> "timing" ]

\* One run_* call: the module has not been called yet.  Its statements run
\* on the parsed data as the earlier calls left them.
RunDetector(m) ==
    /\ parsed_data # NoResult
    /\ module_results[m] = NoResult
    /\ module_results' = [ module_results EXCEPT ![m] = Call(m, parsed_data).result ]
    /\ parsed_data' = ArgumentsAfter(m, parsed_data)
    /\ UNCHANGED risk_report

\* calculate_risk_score(all_results), once every module has returned: its
\* statements run on the dict of the eight results, which are afterwards
\* what the call left of them.
Aggregate ==
    /\ parsed_data # NoResult
    /\ \A m \in ModuleNames : module_results[m] # NoResult
    /\ risk_report = NoResult
    /\ LET call == calculate_risk_score_statements(AllResults(module_results))
       IN  /\ risk_report' = call.result
           /\ module_results' =
                  [ m \in ModuleNames |-> call.args.all_results[ResultKey[m]] ]
    /\ UNCHANGED parsed_data

(***************************************************************************)
(* The two readers of the Authentication-Results header                    *)
(***************************************************************************)

IdleAuth ==
    /\ authentication_results = PyNone
    /\ auth_flags = NoResult
    /\ auth_evaluation = NoResult

\* main: metadata["authentication"] = parse_authentication(header), then
\* run_auth_checks(metadata.get("authentication")).
TriggerAuthChecks ==
    /\ auth_flags = NoResult
    /\ auth_flags' = run_auth_checks(parse_authentication(authentication_results))
    /\ UNCHANGED <<authentication_results, auth_evaluation>>

\* auth_checks: parse_authentication_results, then evaluate_authentication.
EvaluateAuthentication ==
    /\ auth_evaluation = NoResult
    /\ auth_evaluation' =
           evaluate_authentication(parse_authentication_results(authentication_results))
    /\ UNCHANGED <<authentication_results, auth_flags>>

(***************************************************************************)
(* phishingtool/attachment_checks.py on the attachment analyze_attachment  *)
(* is given                                                                *)
(***************************************************************************)

IdleAttachmentChecks == attachment_flags = NoResult

\* run_attachment_checks on the list holding the one attachment.
RunAttachmentChecks ==
    /\ attachment_flags = NoResult
    /\ attachment_flags' = run_attachment_checks(<< attachment.filename >>)

\* The attachments of the messages: none, one of each kind, an unnamed
\* part, and several at once.
AttachmentScoreValues ==
    AttachmentValues
    \cup { << << "x", ".", "e", "x", "e" >> >>,
           << << "a", ".", "z", "i", "p" >> >>,
           << << "x", ".", "e", "x", "e" >>, << "f", ".", "d", "o", "c", "m" >> >>,
           << << "i", ".", "p", "d", "f", ".", "e", "x", "e" >>,
              << "i", ".", "p", "d", "f", ".", "e", "x", "e" >>,
              << "x", ".", "j", "s", ".", "d", "o", "c", "m" >> >> }

AttachmentScoreEmails ==
    { [PlainEmail EXCEPT !.Attachments = a, !.Body = b] :
        a \in AttachmentScoreValues, b \in { "hello", "see https://a.com/" } }

(***************************************************************************)
(* phishingtool/score_calculator.py: the calculators of the components     *)
(* that take the outcome of their checks, and the values each of the       *)
(* twelve calculators can return (in hundredths).                          *)
(***************************************************************************)

\* The largest number of metadata keys holding a list of two or more
\* values, of keys holding a string longer than 500, and of URLs in a body.
MaxListed == 6

\* The sum of calculate_header_score for the lengths of the lists missing,
\* duplicates and long_headers and for invalid_message_id(...).
HeaderScore(missing, duplicates, invalid, long_headers) ==
    CapTen(missing * 50 + duplicates * 150 + (IF invalid THEN 150 ELSE 0)
           + long_headers * 100)

\* calculate_header_score(metadata) on the dict of analyzer.extract_metadata;
\* no header of the model is longer than 500 characters.
calculate_header_score(metadata) ==
    HeaderScore(Len(missing_required_headers(metadata)),
                Len(duplicate_headers(metadata)),
                invalid_message_id(metadata.message_id), 0)

\* The sum of calculate_infrastructure_score for what has_private_ip,
\* helo_mismatch and relay_anomaly return.
InfrastructureScore(private_ip, helo, relay) ==
    CapTen((IF private_ip THEN 200 ELSE 0) + (IF helo THEN 150 ELSE 0)
           + (IF relay THEN 200 ELSE 0))

\* calculate_infrastructure_score(msg, metadata): the dict of
\* analyzer.extract_metadata has no key helo, so metadata.get("helo") is None.
calculate_infrastructure_score(msg, metadata) ==
    InfrastructureScore(has_private_ip(msg.Received),
                        helo_mismatch(PyNone, metadata.from_domain),
                        relay_anomaly(Len(msg.Received)))

\* mime_checks.count_mime_parts: 1 for a message that is not multipart,
\* else the parts of msg.walk(): the container and its parts, which are the
\* body and the attachments, or one part for each transfer encoding when
\* those are more.
count_mime_parts(msg) ==
    LET named == 1 + Len(msg.Attachments)
        coded == Cardinality(msg.Encodings)
        parts == IF named >= coded THEN named ELSE coded
    IN  IF parts = 1 THEN 1 ELSE 1 + parts

\* The sum of calculate_mime_score for what suspicious_encoding and
\* count_mime_parts return.
MimeScore(suspicious, part_count) ==
    CapTen((IF suspicious THEN 200 ELSE 0) + (IF part_count > 10 THEN 150 ELSE 0))

\* calculate_mime_score(msg)
calculate_mime_score(msg) ==
    MimeScore(suspicious_encoding(msg.Encodings), count_mime_parts(msg))

\* The sum of calculate_timing_score for the list extract_timestamps returns.
TimingScore(timestamps) ==
    IF timestamps = << >> THEN CapTen(0)
    ELSE CapTen((IF has_time_travel(timestamps) THEN 250 ELSE 0)
                + (IF suspicious_delivery(total_delivery_time(timestamps))
                   THEN 200 ELSE 0))

\* calculate_timing_score(msg)
calculate_timing_score(msg) == TimingScore(extract_timestamps(msg.Received))

\* calculate_ip_score: originating_ip is an IP literal or None ("None").
calculate_ip_score(ip_analysis) ==
    CapTen((IF Len(ip_analysis.ips) > 5 THEN 150 ELSE 0)
           + (IF ip_analysis.originating_ip = "None" THEN 200 ELSE 0))

\* The module a calculator imports its checks from.
ModuleOf(c) ==
    CASE c = "attachment_score" -> "attachment_checks"
      [] c = "authentication_score" -> "auth_checks"
      [] c = "header_score" -> "header_checks"
      [] c = "domain_score" -> "domain_checks"
      [] c = "url_score" -> "url_checks"
      [] c = "infrastructure_score" -> "infrastructure_checks"
      [] c = "mime_score" -> "mime_checks"
      [] c = "timing_score" -> "timing_checks"
      [] OTHER -> "none"

\* The twelve component scores of one assessment, each as its calculator
\* returns it for the message, the dict of analyzer.extract_metadata, the
\* body and the answers of the score providers; 0 for the calculator whose
\* module raises, by its `except Exception: return 0`.
ComponentScores(msg, prov, failing) ==
    LET metadata    == analyzer_extract_metadata(msg)
        ip_analysis == analyze_received_headers(msg)
    IN  [c \in Components |->
            IF failing # "none" /\ ModuleOf(c) = failing THEN 0
            ELSE IF c = "attachment_score" THEN calculate_attachment_score(msg)
            ELSE IF c = "authentication_score" THEN calculate_auth_score(msg)
            ELSE IF c = "header_score" THEN calculate_header_score(metadata)
            ELSE IF c = "domain_score" THEN calculate_domain_score(metadata)
            ELSE IF c = "url_score" THEN calculate_url_score(msg.Body)
            ELSE IF c = "infrastructure_score"
                 THEN calculate_infrastructure_score(msg, metadata)
            ELSE IF c = "mime_score" THEN calculate_mime_score(msg)
            ELSE IF c = "timing_score" THEN calculate_timing_score(msg)
            ELSE IF c = "metadata_score" THEN calculate_metadata_score(metadata)
            ELSE IF c = "ip_analysis_score" THEN calculate_ip_score(ip_analysis)
            ELSE IF c = "url_security_score"
                 THEN calculate_url_security_score(msg.Body, prov.url_ml)
            ELSE calculate_transformer_score(msg.Body, prov.transformer)]

\* The dict returned by calculate_comprehensive_phishing_score, with the key
\* returned added to tell it from None; lists holds spf_results,
\* dmarc_results and dkim_results as calculate_url_security_score returned
\* them.
ComprehensiveResult(msg, prov, failing, lists) ==
    LET metadata      == analyzer_extract_metadata(msg)
        ip_analysis   == analyze_received_headers(msg)
        cs            == ComponentScores(msg, prov, failing)
        overall_score == WeightedSum(cs)
    IN  [ returned |-> TRUE,
          overall_score |-> RoundTo2(overall_score),
          risk_level |-> get_risk_level(overall_score),
          spf |-> AnyOf(lists.spf),
          dmarc |-> AnyOf(lists.dmarc),
          dkim |-> AnyOf(lists.dkim),
          originating_ip |-> ip_analysis.originating_ip,
          component_scores |-> cs,
          details |->
              [ header_mismatch |-> metadata.reply_to_mismatch,
                domain_mismatch |->
                    PyBool(metadata.from_domain # metadata.return_path_domain),
                total_ips_found |-> Len(ip_analysis.ips) ] ]

\* calculate_comprehensive_phishing_score as one call, prov.dns being what
\* has_spf, has_dmarc and has_dkim return for the domains of the body.
calculate_comprehensive_phishing_score(msg, prov, failing) ==
    IF ReturnsNone(msg, failing) THEN NoneResult
    ELSE ComprehensiveResult(msg, prov, failing,
             [ k \in { "spf", "dmarc", "dkim" } |->
                 url_security_results(msg.Body, prov.url_ml, prov.dns, k) ])

\* The checks of calculate_url_score that fire on one URL.  A host that is
\* an IPv4 literal has exactly three dots and ends in a digit, so it has
\* no suspicious TLD and not too many subdomains.
UrlChecks ==
    { c \in [ ip : BOOLEAN, tld : BOOLEAN, long : BOOLEAN,
              subdomains : BOOLEAN, insecure : BOOLEAN ] :
        c.ip => ~c.tld /\ ~c.subdomains }

\* The increments of the loop of calculate_url_score for one URL.
UrlIncrements(c) ==
    (IF c.ip THEN 200 ELSE 0) + (IF c.tld THEN 150 ELSE 0)
    + (IF c.long THEN 100 ELSE 0) + (IF c.subdomains THEN 100 ELSE 0)
    + (IF c.insecure THEN 100 ELSE 0)

\* calculate_url_score for a body of count URLs on which the same checks fire.
calculate_url_score_alike(count, c) == CapTen(count * UrlIncrements(c))

\* The domains of the From and Return-Path headers.
ScoredDomains ==
    { << >>, << "x" >>, << "y", ".", "r", "u" >>,
      << "p", "a", "y", "p", "a", "1", ".", "r", "u" >>,
      << "g", "0", "0", "g", "l", "e", ".", "t", "k" >> }

\* The values each calculator can return.
ScoreRange ==
    [ attachment_score |->
          { calculate_attachment_score(msg) : msg \in AttachmentScoreEmails },
      authentication_score |->
          { calculate_auth_score([PlainEmail EXCEPT !.AuthResults = a]) :
              a \in AuthResultsValues },
      header_score |->
          { HeaderScore(m, d, i, l) :
              m \in 0..Len(REQUIRED_HEADERS), d \in 0..MaxListed,
              i \in BOOLEAN, l \in 0..MaxListed },
      domain_score |->
          { calculate_domain_score([ from_domain |-> f, return_path_domain |-> r ]) :
              f \in ScoredDomains, r \in ScoredDomains },
      url_score |->
          { calculate_url_score_alike(n, c) : n \in 0..MaxListed, c \in UrlChecks },
      infrastructure_score |->
          { InfrastructureScore(a, b, c) :
              a \in BOOLEAN, b \in BOOLEAN, c \in BOOLEAN },
      mime_score |->
          { MimeScore(a, n) : a \in BOOLEAN, n \in { 1, 10, 11 } },
      timing_score |->
          { TimingScore(ts) :
              ts \in { << >>, << 20 >>, << 20, 10 >>, << 10, 20 >>, << 10, 10 >>,
                       << 10, 86411 >>, << 86411, 10 >>, << 10, 20, 10 >> } },
      metadata_score |->
          { calculate_metadata_score(md) :
              md \in [ reply_to_mismatch : { PyTrue, PyFalse },
                       authentication_results : AuthResultsValues,
                       x_mailer : XMailerValues,
                       from_domain : { << >>, << "x" >> },
                       return_path_domain : { << "x" >>, << "y" >> } ] },
      ip_analysis_score |->
          { calculate_ip_score([ ips |-> ips, originating_ip |-> origin ]) :
              ips \in { << >>, << "8.8.8.8" >>,
                        [ i \in 1..6 |-> "10.0.0.1" ] },
              origin \in { "None", "8.8.8.8" } },
      url_security_score |->
          { calculate_url_security_score("see https://a.com/", prov.url_ml) :
              prov \in Providers },
      transformer_score |->
          { calculate_transformer_score("hello", prov.transformer) :
              prov \in Providers } ]

\* The smallest and the largest value of a set of scores.
Extremes(scores) ==
    { v \in scores : (\A w \in scores : v <= w) \/ (\A w \in scores : w <= v) }

\* Every component at the smallest or the largest value of its calculator.
ExtremeScores ==
    [ attachment_score : Extremes(ScoreRange.attachment_score),
      authentication_score : Extremes(ScoreRange.authentication_score),
      header_score : Extremes(ScoreRange.header_score),
      domain_score : Extremes(ScoreRange.domain_score),
      url_score : Extremes(ScoreRange.url_score),
      infrastructure_score : Extremes(ScoreRange.infrastructure_score),
      mime_score : Extremes(ScoreRange.mime_score),
      timing_score : Extremes(ScoreRange.timing_score),
      metadata_score : Extremes(ScoreRange.metadata_score),
      ip_analysis_score : Extremes(ScoreRange.ip_analysis_score),
      url_security_score : Extremes(ScoreRange.url_security_score),
      transformer_score : Extremes(ScoreRange.transformer_score) ]

IdleOverall ==
    /\ scored = [ c \in Components |-> 0 ]
    /\ overall = NoResult

\* The overall_score expression of calculate_comprehensive_phishing_score
\* and the two entries of the result made from it.
OverallOf(cs) ==
    [ raw |-> WeightedSum(cs),
      overall_score |-> RoundTo2(WeightedSum(cs)),
      risk_level |-> get_risk_level(WeightedSum(cs)) ]

\* The twelve calculators have returned scored: the weighted sum is taken.
WeighComponents ==
    /\ overall = NoResult
    /\ overall' = OverallOf(scored)
    /\ UNCHANGED scored

(***************************************************************************)
(* Initial values of the parts a specification does not exercise           *)
(***************************************************************************)

IdleAttachment ==
    /\ attachment = [ filename |-> << "n" >>, mime_type |-> "application/pdf",
                      size_bytes |-> 0 ]
    /\ attachment_result = NoResult
    /\ check_results = [ dangerous_ext |-> FALSE, double_ext |-> FALSE,
                         mime_mismatch |-> FALSE, macro_ext |-> FALSE,
                         large_file |-> FALSE ]
    /\ attachment_risk = NoResult

IdleRerun ==
    /\ resolver = AnyResolver
    /\ run = 1
    /\ first_outcome = NoOutcome

IdleScoring ==
    /\ all_results = [f \in FlagNames |-> FALSE]
    /\ risk_result = NoResult
    /\ failing_module = "none"
    /\ main_result = NoResult

IdleWeighted ==
    /\ email = PlainEmail
    /\ providers = IdleProviders
    /\ assessment = NoResult
    /\ parser_metadata = NoResult
    /\ analyzer_metadata = NoResult
    /\ url_security = [ t \in Threads |-> IdleUrlSecurity ]

(***************************************************************************)
(* Specification of the trigger-weighted scheme                            *)
(***************************************************************************)

InitScoring ==
    /\ IdleOverall
    /\ IdleAttachmentChecks
    /\ IdleAuth
    /\ IdleDetectors
    /\ IdleUpload
    /\ IdleRerun
    /\ IdleAttachment
    /\ all_results \in [FlagNames -> BOOLEAN]
    /\ risk_result = NoResult
    /\ failing_module = "none"
    /\ main_result = NoResult
    /\ IdleWeighted
    /\ IdleDns
    /\ IdleBatch

\* One call of calculate_risk_score on the current detector results.
CalculateRiskScore ==
    /\ risk_result = NoResult
    /\ risk_result' = calculate_risk_score(all_results)
    /\ UNCHANGED <<overallVars, attachmentChecksVars, authVars, detectorVars, uploadVars, rerunVars, attachmentVars, all_results, failing_module, main_result, weightedVars, dnsVars,
                   batchVars>>

NextScoring == CalculateRiskScore

SpecScoring == InitScoring /\ [][NextScoring]_vars

(***************************************************************************)
(* Specification of the weighted-component scheme                          *)
(***************************************************************************)

InitWeighted ==
    /\ IdleOverall
    /\ IdleAttachmentChecks
    /\ IdleAuth
    /\ IdleDetectors
    /\ IdleUpload
    /\ IdleAttachment
    /\ IdleScoring
    /\ IdleDns
    /\ IdleBatch
    /\ email \in WeightedEmails
    /\ providers \in WorkingProviders
    /\ resolver = ResolverOf(providers.dns)
    /\ run = 1
    /\ first_outcome = NoOutcome
    /\ assessment = NoResult
    /\ parser_metadata = NoResult
    /\ analyzer_metadata = NoResult
    /\ url_security = [ t \in Threads |-> IdleUrlSecurity ]

\* The variables the steps of calculate_comprehensive_phishing_score leave
\* alone, whatever the step.
OutsideComprehensive ==
    <<overallVars, attachmentChecksVars, authVars, detectorVars,
      uploadVars, rerunVars, attachmentVars, scoringVars, batchVars, email,
      providers, parser_metadata, analyzer_metadata>>

\* calculate_comprehensive_phishing_score is called in the caller's thread
\* and runs up to the first DNS check of calculate_url_security_score, or up
\* to its return when that function calls none.
CalculateComprehensive ==
    /\ assessment = NoResult
    /\ ~url_security[0].active
    /\ pc[0] = "idle"
    /\ IF ReturnsNone(email, failing_module)
          \/ ~ReachesDnsChecks(email.Body, providers.url_ml)
       THEN /\ assessment' = calculate_comprehensive_phishing_score(
                                 email, providers, failing_module)
            /\ UNCHANGED <<url_security, pc, frame>>
       ELSE /\ EnterUrlSecurityLoop(0, extract_urls(email.Body))
            /\ UNCHANGED assessment
    /\ UNCHANGED <<dns_cache, cache_lock, first_return, calls_made>>
    /\ UNCHANGED OutsideComprehensive

\* The last DNS check has returned: calculate_url_security_score returns,
\* the transformer score and the weighted sum are taken and the dict is
\* returned.
ReturnComprehensive ==
    /\ pc[0] = "return"
    /\ url_security[0].active
    /\ LastCheck(0)
    /\ assessment' = ComprehensiveResult(email, providers, failing_module,
                                         ReturnedLists(0))
    /\ pc' = [pc EXCEPT ![0] = "idle"]
    /\ frame' = [frame EXCEPT ![0] = IdleFrame]
    /\ url_security' = [url_security EXCEPT ![0] = IdleUrlSecurity]
    /\ UNCHANGED <<dns_cache, cache_lock, first_return, calls_made>>
    /\ UNCHANGED OutsideComprehensive

NextWeighted ==
    \/ CalculateComprehensive
    \/ UrlAnalyzerStep(0) /\ UNCHANGED <<assessment, url_security>>
                          /\ UNCHANGED OutsideComprehensive
    \/ NextUrlCheck(0) /\ UNCHANGED assessment /\ UNCHANGED OutsideComprehensive
    \/ ReturnComprehensive

SpecWeighted == InitWeighted /\ [][NextWeighted]_vars

(***************************************************************************)
(* Specification of the attachment analysis                                *)
(***************************************************************************)

InitAttachment ==
    /\ IdleOverall
    /\ IdleAttachmentChecks
    /\ IdleAuth
    /\ IdleDetectors
    /\ IdleUpload
    /\ IdleRerun
    /\ IdleScoring
    /\ IdleWeighted
    /\ IdleDns
    /\ IdleBatch
    /\ attachment \in Attachments
    /\ attachment_result = NoResult
    /\ check_results \in CheckResults
    /\ attachment_risk = NoResult

\* One call of analyze_attachment.
AnalyzeAttachment ==
    /\ attachment_result = NoResult
    /\ attachment_result' = analyze_attachment(attachment.filename,
                                               attachment.size_bytes,
                                               attachment.mime_type)
    /\ UNCHANGED <<overallVars, attachmentChecksVars, authVars, detectorVars, uploadVars, rerunVars, attachment, check_results, attachment_risk, scoringVars, weightedVars,
                   dnsVars, batchVars>>

\* One call of calculate_risk_score followed by get_verdict on its result.
CalculateAttachmentRisk ==
    /\ attachment_risk = NoResult
    /\ LET score == attachment_calculate_risk_score(
                        check_results.dangerous_ext, check_results.double_ext,
                        check_results.mime_mismatch, check_results.macro_ext,
                        check_results.large_file)
       IN  attachment_risk' = [ returned |-> TRUE, score |-> score,
                           verdict |-> get_verdict(score) ]
    /\ UNCHANGED <<overallVars, attachmentChecksVars, authVars, detectorVars, uploadVars, rerunVars, attachment, attachment_result, check_results, scoringVars,
                   weightedVars, dnsVars, batchVars>>

NextAttachment ==
    \/ AnalyzeAttachment
    \/ CalculateAttachmentRisk

SpecAttachment == InitAttachment /\ [][NextAttachment]_vars

(***************************************************************************)
(* Specification of the trigger pipeline                                   *)
(***************************************************************************)

InitPipeline ==
    /\ IdleOverall
    /\ IdleAttachmentChecks
    /\ IdleAuth
    /\ IdleDetectors
    /\ IdleUpload
    /\ IdleRerun
    /\ IdleAttachment
    /\ IdleScoring
    /\ IdleDns
    /\ IdleBatch
    /\ email \in TriggerEmails
    /\ providers = IdleProviders
    /\ assessment = NoResult
    /\ parser_metadata = NoResult
    /\ analyzer_metadata = NoResult
    /\ url_security = [ t \in Threads |-> IdleUrlSecurity ]

\* One call of main on the message: all_results and final_score are built
\* when no call raises.
Main ==
    /\ main_result = NoResult
    /\ main_result' = main(email, failing_module)
    /\ IF main_result'.returned
       THEN /\ all_results' = FlagsOf(RunAllModules(email))
            /\ risk_result' = calculate_risk_score(all_results')
       ELSE UNCHANGED <<all_results, risk_result>>
    /\ UNCHANGED <<overallVars, attachmentChecksVars, authVars, detectorVars, uploadVars, rerunVars, attachmentVars, failing_module, weightedVars, dnsVars, batchVars>>

NextPipeline == Main

SpecPipeline == InitPipeline /\ [][NextPipeline]_vars

(***************************************************************************)
(* Specification of the two aggregation entry points with one failing      *)
(* module                                                                  *)
(***************************************************************************)

FaultEmails ==
    { [PlainEmail EXCEPT !.Body = b, !.AuthResults = a] :
        b \in { "hello", "see http://a.com/login" },
        a \in { AuthHeader("pass", "pass", "pass"), AuthHeader("fail", "pass", "fail") } }

InitFaults ==
    /\ IdleOverall
    /\ IdleAttachmentChecks
    /\ IdleAuth
    /\ IdleDetectors
    /\ IdleUpload
    /\ IdleAttachment
    /\ all_results = [f \in FlagNames |-> FALSE]
    /\ risk_result = NoResult
    /\ failing_module \in { DetectorModules[i] : i \in 1..Len(DetectorModules) }
                          \cup { "none" }
    /\ main_result = NoResult
    /\ IdleDns
    /\ IdleBatch
    /\ email \in FaultEmails
    /\ providers = IdleProviders
    /\ resolver = ResolverOf(providers.dns)
    /\ run = 1
    /\ first_outcome = NoOutcome
    /\ assessment = NoResult
    /\ parser_metadata = NoResult
    /\ analyzer_metadata = NoResult
    /\ url_security = [ t \in Threads |-> IdleUrlSecurity ]

NextFaults ==
    \/ Main
    \/ NextWeighted

SpecFaults == InitFaults /\ [][NextFaults]_vars

(***************************************************************************)
(* Specification of the weighted-component scheme with failing providers   *)
(***************************************************************************)

InitProviders ==
    /\ IdleOverall
    /\ IdleAttachmentChecks
    /\ IdleAuth
    /\ IdleDetectors
    /\ IdleUpload
    /\ IdleAttachment
    /\ IdleScoring
    /\ IdleDns
    /\ IdleBatch
    /\ email \in { [PlainEmail EXCEPT !.Body = b] : b \in Bodies }
    /\ providers \in Providers
    /\ resolver = ResolverOf(providers.dns)
    /\ run = 1
    /\ first_outcome = NoOutcome
    /\ assessment = NoResult
    /\ parser_metadata = NoResult
    /\ analyzer_metadata = NoResult
    /\ url_security = [ t \in Threads |-> IdleUrlSecurity ]

SpecProviders == InitProviders /\ [][NextWeighted]_vars

(***************************************************************************)
(* Specification of the metadata extraction and the result details         *)
(***************************************************************************)

InitMismatch ==
    /\ IdleOverall
    /\ IdleAttachmentChecks
    /\ IdleAuth
    /\ IdleDetectors
    /\ IdleUpload
    /\ IdleAttachment
    /\ IdleScoring
    /\ IdleDns
    /\ IdleBatch
    /\ email \in Emails
    /\ providers = IdleProviders
    /\ resolver = ResolverOf(providers.dns)
    /\ run = 1
    /\ first_outcome = NoOutcome
    /\ assessment = NoResult
    /\ parser_metadata = NoResult
    /\ analyzer_metadata = NoResult
    /\ url_security = [ t \in Threads |-> IdleUrlSecurity ]

\* parser.extract_metadata(msg)
ParserExtractMetadata ==
    /\ parser_metadata = NoResult
    /\ parser_metadata' = parser_extract_metadata(email)
    /\ UNCHANGED <<overallVars, attachmentChecksVars, authVars, detectorVars, uploadVars, rerunVars, attachmentVars, scoringVars, email, providers, assessment,
                   analyzer_metadata, url_security, dnsVars, batchVars>>

\* analyzer.extract_metadata(msg)
AnalyzerExtractMetadata ==
    /\ analyzer_metadata = NoResult
    /\ url_security = [ t \in Threads |-> IdleUrlSecurity ]
    /\ analyzer_metadata' = analyzer_extract_metadata(email)
    /\ UNCHANGED <<overallVars, attachmentChecksVars, authVars, detectorVars, uploadVars, rerunVars, attachmentVars, scoringVars, email, providers, assessment,
                   parser_metadata, url_security, dnsVars, batchVars>>

NextMismatch ==
    \/ ParserExtractMetadata
    \/ AnalyzerExtractMetadata
    \/ NextWeighted

SpecMismatch == InitMismatch /\ [][NextMismatch]_vars

(***************************************************************************)
(* Specifications of the DNS checks: concurrent callers, and one caller    *)
(***************************************************************************)

\* The pool threads that call the checks concurrently.
Callers == { 1, 2 }

InitDns ==
    /\ IdleOverall
    /\ IdleAttachmentChecks
    /\ IdleAuth
    /\ IdleDetectors
    /\ IdleUpload
    /\ IdleRerun
    /\ IdleAttachment
    /\ IdleScoring
    /\ IdleWeighted
    /\ IdleDns
    /\ IdleBatch

NextDns ==
    /\ \E t \in Callers :
           \/ CallCheck(t)
           \/ UrlAnalyzerStep(t)
           \/ ReturnCheck(t)
    /\ UNCHANGED <<overallVars, attachmentChecksVars, authVars, detectorVars, uploadVars, rerunVars, attachmentVars, scoringVars, weightedVars, batchVars>>

SpecDns == InitDns /\ [][NextDns]_vars

\* Every call made by the caller's thread, one after the other.
NextDnsSeq ==
    /\ \/ CallCheck(0)
       \/ UrlAnalyzerStep(0)
       \/ SecurityCheckStep(0)
       \/ ReturnCheck(0)
    /\ UNCHANGED <<overallVars, attachmentChecksVars, authVars, detectorVars, uploadVars, rerunVars, attachmentVars, scoringVars, weightedVars, batchVars>>

SpecDnsSeq == InitDns /\ [][NextDnsSeq]_vars

(***************************************************************************)
(* Specification of the URL batch                                          *)
(***************************************************************************)

InitBatch ==
    /\ IdleOverall
    /\ IdleAttachmentChecks
    /\ IdleAuth
    /\ IdleDetectors
    /\ IdleUpload
    /\ IdleRerun
    /\ IdleAttachment
    /\ IdleScoring
    /\ IdleWeighted
    /\ IdleDns
    /\ urls \in BatchLists
    /\ batch_pc = "idle"
    /\ futures = [ i \in 1..MaxUrls |-> NoFuture ]
    /\ yielded = {}
    /\ reports = << >>
    /\ task = [ t \in Threads |-> IdleTask ]

NextBatch ==
    /\ \/ CallAnalyzeUrlsParallel
       \/ Submit
       \/ \E i \in 1..MaxUrls : StartTask(i)
       \/ \E t \in Threads : AnalyzeUrlStart(t)
       \/ \E t \in Threads : UrlAnalyzerStep(t) /\ UNCHANGED batchVars
       \/ \E t \in Threads : AnalyzeUrlNext(t)
       \/ \E i \in 1..MaxUrls : Collect(i)
       \/ LeaveExecutor
    /\ UNCHANGED <<overallVars, attachmentChecksVars, authVars, detectorVars, uploadVars, rerunVars, attachmentVars, scoringVars, weightedVars>>

SpecBatch == InitBatch /\ [][NextBatch]_vars

(***************************************************************************)
(* Specification of the originating IP: both reports of one message        *)
(***************************************************************************)

InitOrigin ==
    /\ IdleOverall
    /\ IdleAttachmentChecks
    /\ IdleAuth
    /\ IdleDetectors
    /\ IdleUpload
    /\ IdleAttachment
    /\ all_results = [f \in FlagNames |-> FALSE]
    /\ risk_result = NoResult
    /\ failing_module = "none"
    /\ main_result = NoResult
    /\ IdleDns
    /\ IdleBatch
    /\ email \in OriginEmails
    /\ providers = IdleProviders
    /\ resolver = ResolverOf(providers.dns)
    /\ run = 1
    /\ first_outcome = NoOutcome
    /\ assessment = NoResult
    /\ parser_metadata = NoResult
    /\ analyzer_metadata = NoResult
    /\ url_security = [ t \in Threads |-> IdleUrlSecurity ]

NextOrigin ==
    \/ Main
    \/ NextWeighted

SpecOrigin == InitOrigin /\ [][NextOrigin]_vars

(***************************************************************************)
(* Specification of two concurrent uploads                                 *)
(***************************************************************************)

InitUpload ==
    /\ IdleOverall
    /\ IdleAttachmentChecks
    /\ IdleAuth
    /\ IdleDetectors
    /\ IdleAttachment
    /\ IdleWeighted
    /\ IdleDns
    /\ IdleBatch
    /\ all_results = [ f \in FlagNames |-> FALSE ]
    /\ risk_result = NoResult
    /\ failing_module \in { "none", "analyzer" }
    /\ main_result = NoResult
    /\ resolver = AllRecords
    /\ run = 1
    /\ first_outcome = NoOutcome
    /\ clock = 0
    /\ upload \in [ Requests -> Uploads ]
    /\ req_pc = [ r \in Requests |-> "start" ]
    /\ temp_path = [ r \in Requests |-> NoPath ]
    /\ files = [ path \in TempPaths |-> NoFile ]
    /\ loaded = [ r \in Requests |-> << >> ]
    /\ response = [ r \in Requests |-> 0 ]

\* The variables no step of a request changes.
OutsideUpload ==
    <<overallVars, attachmentChecksVars, authVars, detectorVars, rerunVars,
      attachmentVars, scoringVars, batchVars, email,
      providers, assessment, parser_metadata, analyzer_metadata>>

NextUpload ==
    /\ \/ Tick /\ UNCHANGED <<url_security, dnsVars>>
       \/ \E r \in Requests : NameTempFile(r) /\ UNCHANGED <<url_security, dnsVars>>
       \/ \E r \in Requests : SaveUpload(r) /\ UNCHANGED <<url_security, dnsVars>>
       \/ \E r \in Requests : ReadTempFile(r)
       \/ \E r \in Requests : UrlAnalyzerStep(r) /\ UNCHANGED <<url_security, uploadVars>>
       \/ \E r \in Requests : NextUrlCheck(r) /\ UNCHANGED uploadVars
       \/ \E r \in Requests : Respond(r)
       \/ \E r \in Requests : CleanUp(r) /\ UNCHANGED <<url_security, dnsVars>>
    /\ UNCHANGED OutsideUpload

SpecUpload == InitUpload /\ [][NextUpload]_vars

(***************************************************************************)
(* Specification of the repeated URL batch with fixed DNS responses        *)
(***************************************************************************)

InitRerun ==
    /\ IdleOverall
    /\ IdleAttachmentChecks
    /\ IdleAuth
    /\ IdleDetectors
    /\ IdleUpload
    /\ IdleAttachment
    /\ IdleScoring
    /\ IdleWeighted
    /\ IdleDns
    /\ urls \in UrlLists
    /\ batch_pc = "idle"
    /\ futures = [ i \in 1..MaxUrls |-> NoFuture ]
    /\ yielded = {}
    /\ reports = << >>
    /\ task = [ t \in Threads |-> IdleTask ]
    /\ resolver \in FixedResolvers
    /\ run = 1
    /\ first_outcome = NoOutcome

NextRerun ==
    \/ NextBatch
    \/ CallAgain /\ UNCHANGED <<overallVars, attachmentChecksVars, authVars, detectorVars, uploadVars, attachmentVars, scoringVars, weightedVars>>

SpecRerun == InitRerun /\ [][NextRerun]_vars

(***************************************************************************)
(* Specification of the detector calls of main in any order                *)
(***************************************************************************)

\* Messages whose body parses: every attachment list, bodies without and
\* with a URL, passing and failing authentication, a spoofed sender, and
\* routings with and without anomalies.
DetectorEmails ==
    { [ PlainEmail EXCEPT !.Attachments = a, !.Body = b, !.AuthResults = r,
                          !.From = f, !.Received = h ] :
        a \in AttachmentValues,
        b \in { "hello", "see http://a.com/login" },
        r \in { AuthHeader("pass", "pass", "pass"), AuthHeader("fail", "pass", "fail") },
        f \in { << "a", "@", "x" >>, << "a", "@", "y", ".", "r", "u" >> },
        h \in { ThreeHops, << Hop(<< "8.8.8.8" >>, 30, << >>) >> } }

InitDetectors ==
    /\ IdleOverall
    /\ IdleAttachmentChecks
    /\ IdleAuth
    /\ IdleUpload
    /\ IdleRerun
    /\ IdleAttachment
    /\ IdleScoring
    /\ IdleDns
    /\ IdleBatch
    /\ email \in DetectorEmails
    /\ providers = IdleProviders
    /\ assessment = NoResult
    /\ parser_metadata = NoResult
    /\ analyzer_metadata = NoResult
    /\ url_security = [ t \in Threads |-> IdleUrlSecurity ]
    /\ parsed_data = ParsedData(email)
    /\ module_results = [ m \in ModuleNames |-> NoResult ]
    /\ risk_report = NoResult

NextDetectors ==
    \/ (\E m \in ModuleNames : RunDetector(m)) /\ UNCHANGED <<overallVars, attachmentChecksVars, authVars, uploadVars, rerunVars, attachmentVars, scoringVars, weightedVars, dnsVars, batchVars>>
    \/ Aggregate /\ UNCHANGED <<overallVars, attachmentChecksVars, authVars, uploadVars, rerunVars, attachmentVars, scoringVars, weightedVars, dnsVars, batchVars>>

SpecDetectors == InitDetectors /\ [][NextDetectors]_vars

(***************************************************************************)
(* Specification of the two readers of the Authentication-Results header   *)
(***************************************************************************)

\* The ways a token is written: absent, or its name in lower or upper case
\* with the result fail in three letter cases, or pass.
WrittenResults == { "", "fail", "Fail", "FAIL", "pass" }

CasedAuthHeaders ==
    { << << n1, r1 >>, << n2, r2 >>, << n3, r3 >> >> :
        n1 \in { "spf", "SPF" }, n2 \in { "dkim", "DKIM" },
        n3 \in { "dmarc", "Dmarc" },
        r1 \in WrittenResults, r2 \in WrittenResults, r3 \in WrittenResults }

InitAuth ==
    /\ IdleOverall
    /\ IdleAttachmentChecks
    /\ IdleDetectors
    /\ IdleUpload
    /\ IdleRerun
    /\ IdleAttachment
    /\ IdleScoring
    /\ IdleWeighted
    /\ IdleDns
    /\ IdleBatch
    /\ authentication_results \in CasedAuthHeaders \cup { PyNone }
    /\ auth_flags = NoResult
    /\ auth_evaluation = NoResult

NextAuth ==
    \/ TriggerAuthChecks /\ UNCHANGED <<overallVars, attachmentChecksVars, detectorVars, uploadVars, rerunVars, attachmentVars, scoringVars, weightedVars, dnsVars, batchVars>>
    \/ EvaluateAuthentication /\ UNCHANGED <<overallVars, attachmentChecksVars, detectorVars, uploadVars, rerunVars, attachmentVars, scoringVars, weightedVars, dnsVars, batchVars>>

SpecAuth == InitAuth /\ [][NextAuth]_vars

(***************************************************************************)
(* Specification of the two double-extension checks on one attachment      *)
(***************************************************************************)

InitExtensions ==
    /\ IdleOverall
    /\ IdleAuth
    /\ IdleDetectors
    /\ IdleUpload
    /\ IdleRerun
    /\ IdleScoring
    /\ IdleWeighted
    /\ IdleDns
    /\ IdleBatch
    /\ attachment \in Attachments
    /\ attachment_result = NoResult
    /\ check_results = [ dangerous_ext |-> FALSE, double_ext |-> FALSE,
                         mime_mismatch |-> FALSE, macro_ext |-> FALSE,
                         large_file |-> FALSE ]
    /\ attachment_risk = NoResult
    /\ attachment_flags = NoResult

NextExtensions ==
    \/ AnalyzeAttachment
    \/ RunAttachmentChecks /\ UNCHANGED <<overallVars, authVars, detectorVars, uploadVars, rerunVars, attachmentVars, scoringVars, weightedVars, dnsVars, batchVars>>

SpecExtensions == InitExtensions /\ [][NextExtensions]_vars

(***************************************************************************)
(* Specification of the timing checks                                      *)
(***************************************************************************)

\* The longest routing of the timing specification.
MaxHops == 4

\* The timestamps of its hops, in seconds: none that parses, or one of four
\* instants, the last more than a day after the others.
HopTimes == { NoTime, 10, 11, 20, 86411 }

\* Every routing of at most MaxHops hops with these timestamps.
TimingReceivedValues ==
    UNION { [ 1..n -> { Hop(<< >>, t, << >>) : t \in HopTimes } ] : n \in 0..MaxHops }

TimingEmails == { [ PlainEmail EXCEPT !.Received = h ] : h \in TimingReceivedValues }

InitTiming ==
    /\ IdleOverall
    /\ IdleAttachmentChecks
    /\ IdleAuth
    /\ IdleUpload
    /\ IdleRerun
    /\ IdleAttachment
    /\ IdleScoring
    /\ IdleDns
    /\ IdleBatch
    /\ email \in TimingEmails
    /\ providers = IdleProviders
    /\ assessment = NoResult
    /\ parser_metadata = NoResult
    /\ analyzer_metadata = NoResult
    /\ url_security = [ t \in Threads |-> IdleUrlSecurity ]
    /\ parsed_data = ParsedData(email)
    /\ module_results = [ m \in ModuleNames |-> NoResult ]
    /\ risk_report = NoResult

NextTiming ==
    RunDetector("timing_checks") /\ UNCHANGED <<overallVars, attachmentChecksVars, authVars, uploadVars, rerunVars, attachmentVars, scoringVars, weightedVars, dnsVars, batchVars>>

SpecTiming == InitTiming /\ [][NextTiming]_vars

(***************************************************************************)
(* Specification of the attachment component of the weighted scheme: one   *)
(* call of calculate_comprehensive_phishing_score on a message that        *)
(* carries attachments.                                                    *)
(***************************************************************************)

InitAttachmentScore ==
    /\ IdleOverall
    /\ IdleAttachmentChecks
    /\ IdleAuth
    /\ IdleDetectors
    /\ IdleUpload
    /\ IdleAttachment
    /\ IdleScoring
    /\ IdleDns
    /\ IdleBatch
    /\ email \in AttachmentScoreEmails
    /\ providers = IdleProviders
    /\ resolver = ResolverOf(providers.dns)
    /\ run = 1
    /\ first_outcome = NoOutcome
    /\ assessment = NoResult
    /\ parser_metadata = NoResult
    /\ analyzer_metadata = NoResult
    /\ url_security = [ t \in Threads |-> IdleUrlSecurity ]

NextAttachmentScore == NextWeighted

SpecAttachmentScore == InitAttachmentScore /\ [][NextAttachmentScore]_vars

(***************************************************************************)
(* Specification of the weighted sum over the values the calculators can   *)
(* return: each component at the smallest or the largest value of its      *)
(* calculator.                                                             *)
(***************************************************************************)

InitOverall ==
    /\ IdleAttachment
    /\ IdleAttachmentChecks
    /\ IdleAuth
    /\ IdleBatch
    /\ IdleDetectors
    /\ IdleDns
    /\ IdleRerun
    /\ IdleScoring
    /\ IdleUpload
    /\ IdleWeighted
    /\ scored \in ExtremeScores
    /\ overall = NoResult

NextOverall ==
    WeighComponents /\ UNCHANGED <<attachmentChecksVars, authVars, detectorVars, uploadVars, rerunVars, attachmentVars, scoringVars, weightedVars, dnsVars, batchVars>>

SpecOverall == InitOverall /\ [][NextOverall]_vars

(***************************************************************************)
(* Specification of analyze_url on one URL, called in the caller's thread  *)
(* by analyze_urls_parallel, for every answer of the DNS to each of the    *)
(* four checks                                                             *)
(***************************************************************************)

\* The resolvers that find or do not find the record of each kind.
VerdictResolvers == { ResolverOf(answers) : answers \in [ Kinds -> BOOLEAN ] }

InitVerdict ==
    /\ IdleAttachment
    /\ IdleAttachmentChecks
    /\ IdleAuth
    /\ IdleDetectors
    /\ IdleDns
    /\ IdleOverall
    /\ IdleScoring
    /\ IdleUpload
    /\ IdleWeighted
    /\ urls \in { << url >> : url \in ScoredUrls }
    /\ batch_pc = "idle"
    /\ futures = [ i \in 1..MaxUrls |-> NoFuture ]
    /\ yielded = {}
    /\ reports = << >>
    /\ task = [ t \in Threads |-> IdleTask ]
    /\ resolver \in VerdictResolvers
    /\ run = 1
    /\ first_outcome = NoOutcome

NextVerdict ==
    /\ \/ CallAnalyzeUrlsParallel
       \/ AnalyzeUrlStart(0)
       \/ UrlAnalyzerStep(0) /\ UNCHANGED batchVars
       \/ AnalyzeUrlNext(0)
    /\ UNCHANGED <<overallVars, attachmentChecksVars, authVars, detectorVars, uploadVars, rerunVars, attachmentVars, scoringVars, weightedVars>>

SpecVerdict == InitVerdict /\ [][NextVerdict]_vars

(***************************************************************************)
(* Specification of the worker pool of analyze_urls_parallel: lists of up  *)
(* to MaxPoolUrls URLs, more than the pool has threads.  The URLs of the    *)
(* long lists are ones for which analyze_url returns its report without a  *)
(* DNS check; the short lists hold URLs whose domains are checked.         *)
(***************************************************************************)

\* The longest list given to analyze_urls_parallel.
MaxPoolUrls == 6

\* URLs whose checks without DNS reach 6.
SkippingUrls ==
    { "https://[::1%aaaaaaaaaaaaaaaaaaaaaaaa.paypa1.com]/",
      "http://[::1%aaaaaaaaaaaaaaaaaaaaaaaa.paypa1.com]/" }

\* The lists: of every length, one URL throughout or two URLs in turn; two
\* URLs whose domains are checked in the DNS; and lists with a URL on which
\* analyze_url raises in second place.
PoolLists ==
    { [ i \in 1..n |-> IF i % 2 = 1 THEN u ELSE v ] :
        n \in 0..MaxPoolUrls,
        u \in { "https://[::1%aaaaaaaaaaaaaaaaaaaaaaaa.paypa1.com]/" },
        v \in SkippingUrls }
    \cup { << "https://a.com/", "http://paypa1.com/" >>,
           << "https://a.com/", "http://a.com/login" >>,
           << "https://a.com/", "http://[bad" >>,
           << "https://a.com/", "http://[bad", "https://a.com/" >> }

InitPool ==
    /\ IdleAttachment
    /\ IdleAttachmentChecks
    /\ IdleAuth
    /\ IdleDetectors
    /\ IdleOverall
    /\ IdleScoring
    /\ IdleUpload
    /\ IdleWeighted
    /\ dns_cache = [ m \in Modules |-> EmptyCache ]
    /\ cache_lock = NoThread
    /\ pc = [ t \in 0..MaxPoolUrls |-> "idle" ]
    /\ frame = [ t \in 0..MaxPoolUrls |-> IdleFrame ]
    /\ first_return = [ m \in Modules |-> EmptyCache ]
    /\ calls_made = 0
    /\ urls \in PoolLists
    /\ batch_pc = "idle"
    /\ futures = [ i \in 1..MaxPoolUrls |-> NoFuture ]
    /\ yielded = {}
    /\ reports = << >>
    /\ task = [ t \in 0..MaxPoolUrls |-> IdleTask ]
    /\ resolver \in { AllRecords, NoRecords }
    /\ run = 1
    /\ first_outcome = NoOutcome

NextPool ==
    /\ \/ CallAnalyzeUrlsParallel
       \/ Submit
       \/ \E i \in 1..MaxPoolUrls : StartTask(i)
       \/ \E t \in 0..MaxPoolUrls : AnalyzeUrlStart(t)
       \/ \E t \in 0..MaxPoolUrls : UrlAnalyzerStep(t) /\ UNCHANGED batchVars
       \/ \E t \in 0..MaxPoolUrls : AnalyzeUrlNext(t)
       \/ \E i \in 1..MaxPoolUrls : Collect(i)
       \/ LeaveExecutor
    /\ UNCHANGED <<overallVars, attachmentChecksVars, authVars, detectorVars, uploadVars, rerunVars, attachmentVars, scoringVars, weightedVars>>

SpecPool == InitPool /\ [][NextPool]_vars

(***************************************************************************)
(* Claims about the trigger-weighted scheme                                *)
(***************************************************************************)

\* C1: whatever flags are passed to calculate_risk_score, the returned score
\* is an integer in [0,100], and the verdict is PHISHING exactly when
\* score >= 70, SUSPICIOUS exactly when 40 <= score < 70 and SAFE exactly
\* when score < 40.
C1_ScoreRangeAndVerdictBands ==
    risk_result # NoResult =>
        /\ risk_result.score \in 0..100
        /\ (risk_result.verdict = "PHISHING") <=> (risk_result.score >= 70)
        /\ (risk_result.verdict = "SUSPICIOUS") <=>
               (risk_result.score >= 40 /\ risk_result.score < 70)
        /\ (risk_result.verdict = "SAFE") <=> (risk_result.score < 40)

\* C1 witness: a call whose triggered weights add up to more than 100 has
\* returned the capped score 100 with verdict PHISHING.
C1_Witness ==
    /\ risk_result # NoResult
    /\ \A f \in FlagNames : all_results[f]
    /\ risk_result.score = 100
    /\ risk_result.verdict = "PHISHING"

\* The weights and the trigger names as the specification lists them, in the
\* evaluation order SPF, DKIM, DMARC, domain, URL, attachment, infrastructure,
\* header, timing, encoding.
C2_Expected ==
    << [flag |-> "spf_fail", points |-> 15, name |-> "SPF fail"],
       [flag |-> "dkim_fail", points |-> 15, name |-> "DKIM fail"],
       [flag |-> "dmarc_fail", points |-> 20, name |-> "DMARC fail"],
       [flag |-> "domain_suspicious", points |-> 15, name |-> "Domain anomaly"],
       [flag |-> "url_suspicious", points |-> 15, name |-> "Suspicious URL"],
       [flag |-> "attachment_suspicious", points |-> 20,
        name |-> "Malicious attachment"],
       [flag |-> "infrastructure_suspicious", points |-> 10,
        name |-> "Infrastructure anomaly"],
       [flag |-> "header_suspicious", points |-> 10, name |-> "Header anomaly"],
       [flag |-> "timing_suspicious", points |-> 10, name |-> "Timing anomaly"],
       [flag |-> "suspicious_encoding", points |-> 5,
        name |-> "Suspicious encoding"] >>

RECURSIVE C2_PointsOf(_, _)
C2_PointsOf(r, i) ==
    IF i = 0 THEN 0
    ELSE C2_PointsOf(r, i - 1)
         + (IF r[C2_Expected[i].flag] THEN C2_Expected[i].points ELSE 0)

C2_NamesOf(r) ==
    LET fired == SelectSeq(C2_Expected, LAMBDA e : r[e.flag])
    IN  [i \in 1..Len(fired) |-> fired[i].name]

\* C2: the score is min(100, sum of the fixed weights of exactly the flags
\* that are true), and the triggers list holds exactly the names of the true
\* flags, each once, in the fixed evaluation order.
C2_ScoreIsCappedWeightSum ==
    risk_result # NoResult =>
        /\ risk_result.score = Min(100, C2_PointsOf(all_results, Len(C2_Expected)))
        /\ risk_result.triggers = C2_NamesOf(all_results)

\* C2 witness: a call with only the DMARC, attachment and encoding flags true
\* has returned 45 and the three names in evaluation order.
C2_Witness ==
    /\ risk_result # NoResult
    /\ \A f \in FlagNames :
           all_results[f] <=>
               f \in {"dmarc_fail", "attachment_suspicious", "suspicious_encoding"}
    /\ risk_result.score = 45
    /\ risk_result.triggers =
           << "DMARC fail", "Malicious attachment", "Suspicious encoding" >>

(***************************************************************************)
(* Claims about the weighted-component scheme                              *)
(***************************************************************************)

\* C3: the overall score is a convex combination of the twelve component
\* scores: the weights applied are non-negative and sum to exactly 1.0
\* (100 hundredths).
C3_WeightsSumToOne ==
    assessment.returned =>
        /\ \A c \in Components : ComponentWeight[c] >= 0
        /\ WeightTotal = 100

\* The band of a reported two-decimal score: >=8 CRITICAL, >=6 HIGH,
\* >=4 MEDIUM, >=2 LOW, else MINIMAL (the score in hundredths).
C4_BandOfReported(reported) ==
    IF reported >= 800 THEN "CRITICAL"
    ELSE IF reported >= 600 THEN "HIGH"
    ELSE IF reported >= 400 THEN "MEDIUM"
    ELSE IF reported >= 200 THEN "LOW"
    ELSE "MINIMAL"

\* C4: the reported overall_score lies in [0,10] and the reported risk_level
\* is the band of the reported two-decimal overall_score, so that equal
\* reported scores carry equal levels and a higher reported score never
\* carries a lower band.
C4_RiskLevelFollowsReportedScore ==
    assessment.returned =>
        /\ assessment.overall_score \in 0..1000
        /\ assessment.risk_level = C4_BandOfReported(assessment.overall_score)

(***************************************************************************)
(* Claims about the mismatch indicators                                    *)
(***************************************************************************)

\* A side of a comparison is unknown when the header or the derived domain
\* is None or empty.
C5_Unknown(v) == ~Truthy(v)

\* C5: no mismatch indicator is true when either side of its comparison is
\* unknown: the three flags of parser.extract_metadata, reply_to_mismatch of
\* analyzer.extract_metadata, and header_mismatch / domain_mismatch of the
\* result details.
C5_NoMismatchOnMissingData ==
    /\ parser_metadata.returned =>
        /\ parser_metadata.reply_to_mismatch = PyTrue =>
               ~C5_Unknown(parser_metadata.from_domain)
               /\ ~C5_Unknown(parser_metadata.reply_to_domain)
        /\ parser_metadata.return_path_mismatch = PyTrue =>
               ~C5_Unknown(parser_metadata.from_domain)
               /\ ~C5_Unknown(parser_metadata.return_path_domain)
        /\ parser_metadata.message_id_mismatch = PyTrue =>
               ~C5_Unknown(parser_metadata.from_domain)
               /\ ~C5_Unknown(parser_metadata.message_id_domain)
    /\ analyzer_metadata.returned =>
        (analyzer_metadata.reply_to_mismatch = PyTrue =>
            ~C5_Unknown(email.From) /\ ~C5_Unknown(email.ReplyTo))
    /\ assessment.returned =>
        /\ assessment.details.header_mismatch = PyTrue =>
               ~C5_Unknown(email.From) /\ ~C5_Unknown(email.ReplyTo)
        /\ assessment.details.domain_mismatch = PyTrue =>
               ~C5_Unknown(analyzer_extract_domain(email.From))
               /\ ~C5_Unknown(analyzer_extract_domain(email.ReturnPath))

\* C5, the part the code keeps: the three flags of parser.extract_metadata.
C5_ParserFlagsNeedBothSides ==
    parser_metadata.returned =>
        /\ parser_metadata.reply_to_mismatch = PyTrue =>
               ~C5_Unknown(parser_metadata.from_domain)
               /\ ~C5_Unknown(parser_metadata.reply_to_domain)
        /\ parser_metadata.return_path_mismatch = PyTrue =>
               ~C5_Unknown(parser_metadata.from_domain)
               /\ ~C5_Unknown(parser_metadata.return_path_domain)
        /\ parser_metadata.message_id_mismatch = PyTrue =>
               ~C5_Unknown(parser_metadata.from_domain)
               /\ ~C5_Unknown(parser_metadata.message_id_domain)

(***************************************************************************)
(* Claims about the cached DNS checks                                      *)
(***************************************************************************)

\* C6: once a call of has_spf, has_dmarc, has_dkim or domain_resolves of
\* url_analyzer has returned for a domain, every later call made after it for
\* the same check and domain returns the same value and sends no query,
\* whatever the DNS outcomes were.
C6_LaterCallsHitTheCache ==
    \A t \in Threads :
        LET first == first_return["url_analyzer"][FrameKey(t)]
        IN  (pc[t] = "return" /\ frame[t].module = "url_analyzer"
               /\ first # PyNone) =>
                /\ frame[t].value = first
                /\ frame[t].queries = 0

\* A second has_dkim call for a domain without DKIM records returns the
\* cached False.
C6_Witness ==
    /\ pc[0] = "return"
    /\ frame[0].module = "url_analyzer"
    /\ frame[0].kind = "dkim"
    /\ first_return["url_analyzer"][FrameKey(0)] = PyFalse
    /\ frame[0].value = PyFalse
    /\ frame[0].queries = 0

\* Two threads have a query in flight for the same key.
C7_BothInFlight(t1, t2) ==
    /\ t1 # t2
    /\ pc[t1] = "in_flight"
    /\ pc[t2] = "in_flight"
    /\ frame[t1].module = frame[t2].module
    /\ FrameKey(t1) = FrameKey(t2)

\* C7 as claimed: under any interleaving at most one query is in flight for
\* a (check, domain) key: two threads never both miss the cache and both
\* query DNS for the same key.
C7_AtMostOneInFlightPerKey ==
    \A t1, t2 \in Threads : ~C7_BothInFlight(t1, t2)

\* C7 as the code has it: a thread sends a query for a key only after its
\* own lookup of that key missed; threads that all missed before any of them
\* wrote may have queries for the same key in flight together.
C7_QueryOnlyAfterOwnMiss ==
    \A t \in Threads :
        pc[t] \in { "resolve", "in_flight" } => frame[t].cached = PyNone

\* Two pool threads that both missed have a query for spf_a.com in flight.
C7_Witness ==
    /\ C7_BothInFlight(1, 2)
    /\ frame[1].kind = "spf"
    /\ frame[1].cached = PyNone
    /\ frame[2].cached = PyNone

\* C8: the cache of url_analyzer is write-once per key: once a key holds a
\* value, no step of any thread changes that value.
C8_WriteOncePerKey ==
    [][\A k \in Keys :
           dns_cache["url_analyzer"][k] # PyNone =>
               dns_cache'["url_analyzer"][k] = dns_cache["url_analyzer"][k]]_vars

\* The call of thread t is one of has_spf, has_dmarc, has_dkim and
\* domain_resolves: unknown_ip of security_check is none of them.
C9_Named(t) == ~(frame[t].module = "security_check" /\ frame[t].kind = "ip")

\* C9 as claimed: whenever the resolver raised during a call, the call
\* returns False and the key is cached as False.
C9_AnyExceptionMeansFalse ==
    \A t \in Threads :
        (pc[t] = "return" /\ C9_Named(t) /\ frame[t].raised > 0) =>
            /\ frame[t].value = PyFalse
            /\ dns_cache[frame[t].module][FrameKey(t)] = PyFalse

\* C9 as the code has it: no check of either module ever ends by raising;
\* a call all of whose queries raised returns False and writes False to the
\* cache.  has_dkim goes on to its next selector after an exception and
\* returns True when a later selector yields the record.
C9_NeverRaisesAndFalseWhenAllRaised ==
    \A t \in Threads :
        /\ pc[t] # "raised"
        /\ (pc[t] = "return" /\ C9_Named(t) /\ frame[t].queries > 0
              /\ frame[t].raised = frame[t].queries) =>
               /\ frame[t].value = PyFalse
               /\ frame[t].wrote = PyFalse

\* has_dkim of security_check returns False after all five selectors raised.
C9_Witness ==
    /\ pc[0] = "return"
    /\ frame[0].module = "security_check"
    /\ frame[0].kind = "dkim"
    /\ frame[0].queries = 5
    /\ frame[0].raised = 5
    /\ frame[0].value = PyFalse
    /\ dns_cache["security_check"][FrameKey(0)] = PyFalse

(***************************************************************************)
(* Claims about the URL batch                                              *)
(***************************************************************************)

\* C10: for a URL list of any length, if analyze_url raises for some URL,
\* analyze_urls_parallel raises nothing and returns one report per URL, the
\* failing URL reported with the verdict Suspicious.
C10_BatchSurvivesFailingUrl ==
    /\ batch_pc # "raised"
    /\ batch_pc = "returned" =>
        /\ Len(reports) = Len(urls)
        /\ \A i \in 1..Len(urls) :
               urlparse(urls[i]).raises =>
                   \E j \in 1..Len(reports) :
                       /\ reports[j].url = urls[i]
                       /\ reports[j].verdict = "Suspicious"

(***************************************************************************)
(* Claims about failing score providers                                    *)
(***************************************************************************)

\* The component fed by a provider.
C11_SlotOf(p) == IF p = "url_ml" THEN "url_security_score" ELSE "transformer_score"

\* C11: when the transformer body classifier or the ML URL classifier is
\* unavailable or raises, calculate_comprehensive_phishing_score still
\* returns a result, in which the component score of that provider is 0 and
\* every other component score is what it would be had the provider returned 0.
C11_FailedProviderCountsAsZero ==
    assessment # NoResult =>
        \A p \in { "url_ml", "transformer" } :
            providers[p].kind # "returns" =>
                /\ assessment.returned
                /\ assessment.component_scores[C11_SlotOf(p)] = 0
                /\ assessment.component_scores =
                       ComponentScores(email,
                                       [providers EXCEPT ![p] = Returns(0)],
                                       failing_module)

\* The part of C11 that holds: where a result is returned, the component of
\* the failed provider is 0 and the others are as with a provider returning 0.
C11_FailedProviderCountsAsZeroWhenReturned ==
    assessment.returned =>
        \A p \in { "url_ml", "transformer" } :
            providers[p].kind # "returns" =>
                /\ assessment.component_scores[C11_SlotOf(p)] = 0
                /\ assessment.component_scores =
                       ComponentScores(email,
                                       [providers EXCEPT ![p] = Returns(0)],
                                       failing_module)

C11_Witness ==
    /\ assessment # NoResult
    /\ assessment.returned
    /\ email.Body = "see http://a.com/login"
    /\ providers.transformer = Raises
    /\ providers.url_ml = Unavailable
    /\ assessment.component_scores.url_score = 100
    /\ assessment.component_scores.header_score = 150
    /\ assessment.component_scores.transformer_score = 0
    /\ assessment.component_scores.url_security_score = 0

(***************************************************************************)
(* Claims about a failing detector module                                  *)
(***************************************************************************)

\* The component fed by a module.
C12_SlotOf(module) == CHOOSE c \in Components : ModuleOf(c) = module

\* C12: in main and in calculate_comprehensive_phishing_score, when exactly
\* one detector module raises an unexpected exception the assessment still
\* returns a report, the failed module contributes 0, and the report records
\* that the module could not be evaluated: it is a report no run without a
\* failure returns.
C12_OneFailingModuleIsSurvivedAndRecorded ==
    failing_module # "none" =>
        /\ main_result # NoResult => main_result.returned
        /\ assessment # NoResult =>
               /\ assessment.returned
               /\ assessment.component_scores[C12_SlotOf(failing_module)] = 0
               /\ assessment # calculate_comprehensive_phishing_score(
                                   email, providers, "none")

(***************************************************************************)
(* Claims about the trigger pipeline                                       *)
(***************************************************************************)

\* The messages of C13: spf=fail and dmarc=fail, a Reply-To domain that
\* differs from the From domain, a macro-enabled attachment, more than 15
\* Received hops.
C13_Case(msg) ==
    /\ msg.AuthResults # PyNone
    /\ msg.AuthResults[1] = << "spf", "fail" >>
    /\ msg.AuthResults[3] = << "dmarc", "fail" >>
    /\ Truthy(parser_extract_domain(msg.ReplyTo))
    /\ Truthy(parser_extract_domain(msg.From))
    /\ parser_extract_domain(msg.ReplyTo) # parser_extract_domain(msg.From)
    /\ \E i \in 1..Len(msg.Attachments) :
           /\ msg.Attachments[i] # PyNone
           /\ splitext(Lower(msg.Attachments[i])) \in MACRO_EXTENSIONS
    /\ Len(msg.Received) > 15

\* What C13 asks of the results of the checks and of the report.
C13_Flagged(msg, report) ==
    LET results == RunAllModules(msg)
    IN  /\ results.authentication.spf_fail
        /\ results.authentication.dmarc_fail
        /\ results.domain.reply_to_mismatch = PyTrue
        /\ results.attachment.attachment_suspicious
        /\ results.infrastructure.relay_anomaly
        /\ report.score >= 80
        /\ report.verdict = "PHISHING"

\* C13: for every message of the case, the trigger pipeline sets spf_fail,
\* dmarc_fail, reply_to_mismatch, attachment_suspicious and relay_anomaly and
\* yields a score of at least 80 and the verdict PHISHING, whatever the other
\* checks report.
C13_IndicatorsYieldPhishing ==
    (main_result # NoResult /\ C13_Case(email)) =>
        /\ main_result.returned
        /\ C13_Flagged(email, main_result)

\* C13 for the messages main returns a report for.
C13_IndicatorsYieldPhishingWhenReported ==
    (main_result # NoResult /\ main_result.returned /\ C13_Case(email)) =>
        C13_Flagged(email, main_result)

\* The messages of C14: the four required headers, a well-formed Message-ID,
\* no attachments, no URLs, all-pass authentication, exactly three Received
\* hops whose timestamps run from the newest to the oldest within a day, and
\* From, Reply-To, Return-Path and Message-ID domains all equal.
C14_Case(msg) ==
    LET metadata == extract_metadata(msg)
    IN  /\ missing_required_headers(metadata) = << >>
        /\ ~invalid_message_id(msg.MessageID)
        /\ msg.Attachments = << >>
        /\ extract_urls(msg.Body) = << >>
        /\ msg.AuthResults = AuthHeader("pass", "pass", "pass")
        /\ Len(msg.Received) = 3
        /\ \A i \in 1..3 : msg.Received[i].time # NoTime
        /\ \A i \in 1..2 : msg.Received[i].time > msg.Received[i + 1].time
        /\ msg.Received[1].time - msg.Received[3].time <= 86400
        /\ Truthy(metadata.from_domain)
        /\ metadata.reply_to_domain = metadata.from_domain
        /\ metadata.return_path_domain = metadata.from_domain
        /\ metadata.message_id_domain = metadata.from_domain

\* C14: a message of the case yields score 0, no triggers and verdict SAFE.
C14_CleanMessageScoresZero ==
    (main_result # NoResult /\ C14_Case(email)) =>
        /\ main_result.returned
        /\ main_result.score = 0
        /\ main_result.triggers = << >>
        /\ main_result.verdict = "SAFE"

(***************************************************************************)
(* Claims about the attachment analysis                                    *)
(***************************************************************************)

\* The text after the last dot of a filename, in lower case, with its dot.
C15_FinalSegment(filename) == << "." >> \o AfterLast(Lower(filename), ".")

\* C15: every filename with at least three dot-separated segments whose
\* final segment is a dangerous extension gets risk_score >= 65 and verdict
\* MALICIOUS for any MIME type and size; every filename whose extension is
\* neither dangerous nor macro-enabled, whose MIME type matches the
\* extension table and whose size is at most 20 MB gets risk_score 0 and
\* verdict SAFE.
C15_DoubleExtensionIsMaliciousAndPlainIsSafe ==
    attachment_result # NoResult =>
        /\ (/\ SplitCount(attachment.filename) >= 3
            /\ C15_FinalSegment(attachment.filename) \in DANGEROUS_EXTENSIONS)
           => /\ attachment_result.risk_score >= 65
              /\ attachment_result.verdict = "MALICIOUS"
        /\ (/\ C15_FinalSegment(attachment.filename) \notin
                   DANGEROUS_EXTENSIONS \cup MACRO_EXTENSIONS
            /\ ~check_mime_mismatch(attachment.filename, attachment.mime_type)
            /\ attachment.size_bytes <= 20 * 1024 * 1024)
           => /\ attachment_result.risk_score = 0
              /\ attachment_result.verdict = "SAFE"

\* The sum of C16 before the cap.
C16_Sum(c) ==
    45 * (IF c.dangerous_ext THEN 1 ELSE 0) + 40 * (IF c.macro_ext THEN 1 ELSE 0)
    + 20 * (IF c.double_ext THEN 1 ELSE 0) + 15 * (IF c.mime_mismatch THEN 1 ELSE 0)
    + 8 * (IF c.large_file THEN 1 ELSE 0)

\* The flags of c that are set.
C16_Set(c) == { f \in DOMAIN c : c[f] }

\* C16: calculate_risk_score returns min(100, 45*dangerous + 40*macro +
\* 20*double + 15*mime_mismatch + 8*large), a value in [0,100]; get_verdict
\* is MALICIOUS exactly from 40, SUSPICIOUS exactly from 15 to 39, SAFE
\* exactly below 15; so one CRITICAL rule alone gives MALICIOUS, one HIGH
\* rule alone SUSPICIOUS, and a large file alone SAFE.
C16_RiskScoreIsCappedSumAndVerdictBands ==
    attachment_risk # NoResult =>
        /\ attachment_risk.score = Min(100, C16_Sum(check_results))
        /\ attachment_risk.score \in 0..100
        /\ attachment_risk.verdict = "MALICIOUS" <=> attachment_risk.score >= 40
        /\ attachment_risk.verdict = "SUSPICIOUS" <=>
               (attachment_risk.score >= 15 /\ attachment_risk.score < 40)
        /\ attachment_risk.verdict = "SAFE" <=> attachment_risk.score < 15
        /\ C16_Set(check_results) \in { {"dangerous_ext"}, {"macro_ext"} }
               => attachment_risk.verdict = "MALICIOUS"
        /\ C16_Set(check_results) \in { {"double_ext"}, {"mime_mismatch"} }
               => attachment_risk.verdict = "SUSPICIOUS"
        /\ C16_Set(check_results) = {"large_file"} => attachment_risk.verdict = "SAFE"

C16_Witness ==
    /\ attachment_risk # NoResult
    /\ C16_Set(check_results) = DOMAIN check_results
    /\ attachment_risk.score = 100
    /\ attachment_risk.verdict = "MALICIOUS"

(***************************************************************************)
(* Claims about repeated analysis                                          *)
(***************************************************************************)

\* How many times a report is in a list.
C17_Count(seq, r) == Cardinality({ i \in DOMAIN seq : seq[i] = r })

\* Two lists with the same reports, each as many times, in some order.
C17_SameReports(a, b) ==
    /\ Len(a) = Len(b)
    /\ \A i \in DOMAIN a : C17_Count(a, a[i]) = C17_Count(b, a[i])

\* C17: analysing the same URL list again with the same DNS responses gives
\* the same result, with a cold or a warm DNS cache and under every thread
\* scheduling: the second call of analyze_urls_parallel returns the same
\* reports in the same order, with the same scores, verdicts and reasons,
\* as the first.
C17_RerunGivesSameReportsInSameOrder ==
    (run = 2 /\ batch_pc \in { "returned", "raised" }) =>
        BatchOutcome = first_outcome

\* The part of C17 that holds: the second call ends as the first did and
\* returns the same reports, in some order.
C17_RerunGivesSameReportsInSomeOrder ==
    (run = 2 /\ batch_pc \in { "returned", "raised" }) =>
        /\ BatchOutcome.state = first_outcome.state
        /\ C17_SameReports(BatchOutcome.reports, first_outcome.reports)

(***************************************************************************)
(* Claims about the originating IP                                         *)
(***************************************************************************)

\* The IP literals of the Received headers, in header order and, within a
\* header, in text order.
RECURSIVE C20_HopLiterals(_)
C20_HopLiterals(received_headers) ==
    IF received_headers = << >> THEN << >>
    ELSE Head(received_headers).ips \o C20_HopLiterals(Tail(received_headers))

\* The private, loopback and link-local addresses of the model.
C20_NotPublic == { "10.0.0.1", "127.0.0.1", "169.254.1.1", "::1", "fe80::1" }

\* The first public literal of the routing hops, or None.
C20_FirstPublic(msg) ==
    FirstIn(C20_HopLiterals(msg.Received), ValidLiterals \ C20_NotPublic)

\* C20: the originating_ip reported for a message - by main in origin.ip and
\* by calculate_comprehensive_phishing_score in originating_ip - is the first
\* IP literal in header order of the Received hops that is neither private
\* nor loopback nor link-local, and None exactly when the hops hold no such
\* literal.
C20_OriginIsFirstPublicLiteralOfHops ==
    /\ main_result.returned =>
           main_result.origin.ip = C20_FirstPublic(email)
    /\ assessment.returned =>
           assessment.originating_ip = C20_FirstPublic(email)

\* The part of C20 that holds: the reported address is never a private, a
\* loopback or a link-local one.
C20_OriginIsNeverPrivate ==
    /\ main_result.returned => main_result.origin.ip \notin C20_NotPublic
    /\ assessment.returned => assessment.originating_ip \notin C20_NotPublic

(***************************************************************************)
(* Claims about the keys of the weighted report                            *)
(***************************************************************************)

\* C18: every result of calculate_comprehensive_phishing_score that is not
\* None holds the keys from_address and to_address besides overall_score,
\* risk_level, spf, dmarc, dkim, originating_ip, component_scores and
\* details, so the fields from_address and to_address of the API response
\* are filled from the result.
C18_ResultHoldsFromAndToAddress ==
    assessment.returned =>
        /\ { "overall_score", "risk_level", "spf", "dmarc", "dkim",
             "originating_ip", "component_scores", "details",
             "from_address", "to_address" } \subseteq KeysOf(assessment)
        /\ analyze_email_route(assessment).from_address # PyNone
        /\ analyze_email_route(assessment).to_address # PyNone

\* The part of C18 that holds: the keys of the result are the eight others.
C18_ResultHoldsTheOtherKeys ==
    assessment.returned =>
        KeysOf(assessment) = { "overall_score", "risk_level", "spf", "dmarc",
                               "dkim", "originating_ip", "component_scores",
                               "details" }

(***************************************************************************)
(* Claims about concurrent uploads                                         *)
(***************************************************************************)

\* The request has saved its upload and not yet removed its temporary file.
C19_Analysing(r) == req_pc[r] \in { "load_email", "analyze_email", "url_security" }

\* A 500 the request owes to nothing but itself: the import of analyzer
\* fails, or a URL of the message it uploaded makes analyze_email raise.
C19_OwnFailure(r) ==
    failing_module = "analyzer" \/ analyzer_extract_urls(upload[r].body).raises

\* C19: two assessments handled at the same time by POST
\* /analyze_email_route share no state other than the DNS cache: under every
\* interleaving each request analyses the file it uploaded, and no other
\* request overwrites or deletes the temporary file a request is still
\* analysing, two uploads of the same filename within the same second
\* included.
C19_RequestsDoNotShareTempFiles ==
    \A r \in Requests :
        /\ C19_Analysing(r) => files[temp_path[r]] = r
        /\ \A i \in 1..Len(loaded[r]) : loaded[r][i] = r
        /\ response[r] = 500 => C19_OwnFailure(r)

\* The part of C19 that holds: two requests whose temporary files have
\* different paths do not disturb each other.
C19_DistinctPathsDoNotInterfere ==
    \A r \in Requests :
        (\A q \in Requests \ {r} : temp_path[q] # temp_path[r]) =>
            /\ C19_Analysing(r) => files[temp_path[r]] = r
            /\ \A i \in 1..Len(loaded[r]) : loaded[r][i] = r
            /\ response[r] = 500 => C19_OwnFailure(r)

(***************************************************************************)
(* Claims about the detectors' arguments                                   *)
(***************************************************************************)

\* The keys of the result the module's functions compute hold, in the dict
\* the call returned, the values those functions give on the message.
C21_ResultOf(m) ==
    LET expected == Detect(m, ParsedData(email))
    IN  \A k \in DOMAIN expected :
            k \in DOMAIN module_results[m] /\ module_results[m][k] = expected[k]

\* C21: no detector call and no aggregator call changes what it was given:
\* after any sequence of calls the metadata, the URL list, the attachment
\* list and the message are what analyze_email returned, each module's
\* result is the dict its call returns on the fresh parsed data, whatever
\* ran before it, and still so after calculate_risk_score has read it, and
\* the score is the one main computes in its own call order.
C21_DetectorsLeaveTheirArgumentsUnchanged ==
    parsed_data # NoResult =>
        /\ parsed_data = ParsedData(email)
        /\ \A m \in ModuleNames :
              module_results[m] # NoResult =>
                  /\ module_results[m] = Call(m, ParsedData(email)).result
                  /\ C21_ResultOf(m)
        /\ risk_report # NoResult =>
              risk_report = calculate_risk_score(FlagsOf(RunAllModules(email)))

\* Every module and the aggregator have been called on a message with an
\* attachment, a URL and several hops, and some trigger fired.
C21_Witness ==
    /\ parsed_data # NoResult
    /\ risk_report # NoResult
    /\ risk_report.score > 0
    /\ Len(parsed_data.attachments) > 0
    /\ Len(parsed_data.urls) > 0
    /\ Len(parsed_data.metadata.received_headers) > 1

(***************************************************************************)
(* Claims about the Authentication-Results tokens                          *)
(***************************************************************************)

\* The header carries token i and its result is fail in some letter case.
C22_FailIgnoringCase(i) ==
    /\ authentication_results # PyNone
    /\ StrLower(authentication_results[i][2]) = "fail"

\* The flags a case-insensitive reader sets.
C22_Expected ==
    [ spf_fail |-> C22_FailIgnoringCase(1),
      dkim_fail |-> C22_FailIgnoringCase(2),
      dmarc_fail |-> C22_FailIgnoringCase(3),
      auth_suspicious |-> \E i \in 1..3 : C22_FailIgnoringCase(i) ]

\* C22: for a header whose spf=, dkim= and dmarc= tokens are written in any
\* letter case, the trigger pipeline (parser.parse_authentication, then
\* run_auth_checks) sets each *_fail flag and auth_suspicious exactly when
\* the result is fail ignoring case, and so agrees with
\* parse_authentication_results followed by evaluate_authentication.
C22_TriggerPipelineIgnoresLetterCase ==
    auth_flags # NoResult =>
        /\ auth_flags = C22_Expected
        /\ auth_evaluation # NoResult => auth_flags = auth_evaluation

\* What holds: the reader of auth_checks ignores letter case, and the trigger
\* pipeline agrees with it on headers written in lower case throughout.
C22_LowerCaseHeadersAgree ==
    /\ auth_evaluation # NoResult => auth_evaluation = C22_Expected
    /\ auth_flags # NoResult /\ authentication_results # PyNone
          /\ (\A i \in 1..3 : \A k \in 1..2 :
                 authentication_results[i][k] = StrLower(authentication_results[i][k]))
       => auth_flags = C22_Expected

(***************************************************************************)
(* Claims about the double-extension flag                                  *)
(***************************************************************************)

\* At least three dot-separated segments, the final one an extension of the
\* set.
C23_DoubleExtension(filename, dangerous) ==
    /\ SplitCount(filename) >= 3
    /\ << "." >> \o AfterLast(Lower(filename), ".") \in dangerous

\* C23: the double-extension flag of a filename is raised exactly when it
\* has at least three dot-separated segments and its final segment is a
\* dangerous extension, by check_double_extension and by
\* run_attachment_checks alike (for the latter, dangerous by either module's
\* list), so a multi-dot name whose final segment is harmless never makes
\* attachment_suspicious true.
C23_DoubleExtensionFlagIsExact ==
    /\ attachment_result # NoResult =>
          attachment_result.checks.double_extension =
              C23_DoubleExtension(attachment.filename, DANGEROUS_EXTENSIONS)
    /\ attachment_flags # NoResult =>
          /\ attachment_flags.double_extension \in
                 { C23_DoubleExtension(attachment.filename, DANGEROUS_EXTENSIONS),
                   C23_DoubleExtension(attachment.filename, EXECUTABLE_EXTENSIONS) }
          /\ << "." >> \o AfterLast(Lower(attachment.filename), ".") \notin
                 DANGEROUS_EXTENSIONS \cup MACRO_EXTENSIONS
             => ~attachment_flags.attachment_suspicious

\* What holds: check_double_extension is exact, and run_attachment_checks
\* raises the flag for every name with at least three segments.
C23_PerAttachmentCheckIsExact ==
    /\ attachment_result # NoResult =>
          attachment_result.checks.double_extension =
              C23_DoubleExtension(attachment.filename, DANGEROUS_EXTENSIONS)
    /\ attachment_flags # NoResult =>
          attachment_flags.double_extension = (SplitCount(attachment.filename) > 2)

(***************************************************************************)
(* Claims about the timing checks                                          *)
(***************************************************************************)

\* The hops of the message whose timestamp parses, by position.
C24_Parsed == { i \in 1..Len(email.Received) : email.Received[i].time # NoTime }

\* Hop k is the next parsed hop after hop i.
C24_Next(i, k) ==
    /\ i < k
    /\ \A n \in C24_Parsed : ~(i < n /\ n < k)

\* The absolute difference between the first and the last parsed timestamp.
C24_Elapsed ==
    LET first == email.Received[CHOOSE i \in C24_Parsed : \A n \in C24_Parsed : i <= n].time
        last  == email.Received[CHOOSE i \in C24_Parsed : \A n \in C24_Parsed : n <= i].time
    IN  IF first >= last THEN first - last ELSE last - first

\* C24: hops without a parsable timestamp are skipped.  With fewer than two
\* parsed timestamps neither time_travel_detected nor
\* suspicious_delivery_time is set; otherwise time_travel_detected is set
\* exactly when some parsed timestamp is strictly earlier than the next
\* parsed one in header order, and suspicious_delivery_time exactly when the
\* first and the last parsed timestamp are less than 1 second or more than
\* 86400 seconds apart.
C24_TimingFlagsSkipUnparsedHops ==
    LET timing == module_results["timing_checks"]
    IN  timing # NoResult =>
          /\ timing.timestamp_count = Cardinality(C24_Parsed)
          /\ IF Cardinality(C24_Parsed) < 2
             THEN ~timing.time_travel_detected /\ ~timing.suspicious_delivery_time
             ELSE /\ timing.time_travel_detected =
                        (\E i, k \in C24_Parsed :
                            /\ C24_Next(i, k)
                            /\ email.Received[i].time < email.Received[k].time)
                  /\ timing.suspicious_delivery_time =
                        (C24_Elapsed < 1 \/ C24_Elapsed > 86400)

\* The timing checks have run on a routing with an unparsed hop between
\* parsed ones, where the hop after the gap is later and the first and last
\* parsed hops are more than a day apart.
C24_Witness ==
    LET timing == module_results["timing_checks"]
    IN  /\ timing # NoResult
        /\ Len(email.Received) = 4
        /\ email.Received[2].time = NoTime
        /\ Cardinality(C24_Parsed) = 3
        /\ timing.time_travel_detected
        /\ timing.suspicious_delivery_time


(***************************************************************************)
(* C25: in the weighted-component scheme the attachment component reflects *)
(* the attachments: calculate_attachment_score is min(10, the sum over the *)
(* named parts of 2 for a double extension, 3 for an executable extension, *)
(* 2.5 for a macro-enabled extension and 1.5 for an archive), so a message *)
(* with an attachment such as x.exe gets at least 3 and not 0.             *)
(***************************************************************************)

\* Archive extensions, for the 1.5 of the statement.
C25_ArchiveExtensions ==
    { << ".", "z", "i", "p" >>, << ".", "r", "a", "r" >>, << ".", "7", "z" >> }

C25_Points(filename) ==
    IF ~Truthy(filename) THEN 0
    ELSE (IF has_double_extension(filename) THEN 200 ELSE 0)
         + (IF get_extension(filename) \in EXECUTABLE_EXTENSIONS THEN 300 ELSE 0)
         + (IF get_extension(filename) \in MACRO_EXTENSIONS THEN 250 ELSE 0)
         + (IF get_extension(filename) \in C25_ArchiveExtensions THEN 150 ELSE 0)

RECURSIVE C25_Sum(_, _)
C25_Sum(parts, i) ==
    IF i = 0 THEN 0 ELSE C25_Sum(parts, i - 1) + C25_Points(parts[i])

C25_Expected(msg) == Min(1000, C25_Sum(msg.Attachments, Len(msg.Attachments)))

C25_AttachmentScoreReflectsAttachments ==
    (assessment # NoResult /\ assessment.returned) =>
        assessment.component_scores.attachment_score = C25_Expected(email)

\* What the code does instead: the component is 0 for every message.
C25_AttachmentScoreIsAlwaysZero ==
    (assessment # NoResult /\ assessment.returned) =>
        assessment.component_scores.attachment_score = 0


(***************************************************************************)
(* C26: in url_analyzer every read and every write of _dns_cache is made   *)
(* by the thread holding _cache_lock, at most one thread holds the lock,   *)
(* and the lock is never held while a DNS query is in flight: a thread     *)
(* waiting for the lock waits only for a holder whose next step releases   *)
(* it, so a slow query never blocks the lookups of other keys and no       *)
(* deadlock is reachable.                                                  *)
(***************************************************************************)

\* The positions inside a with _cache_lock block.
C26_Locked == { "get_cache_locked", "set_cache_locked" }

C26_LockState ==
    /\ cache_lock \in Callers \cup { NoThread }
    /\ \A t \in Callers : pc[t] \in C26_Locked <=> cache_lock = t
    /\ Cardinality({ t \in Callers : pc[t] \in C26_Locked }) <= 1
    /\ \A t \in Callers : pc[t] \in { "resolve", "in_flight" } => cache_lock # t
    /\ \A t \in Callers :
           pc[t] \in { "get_cache", "set_cache" } =>
               \/ cache_lock = NoThread
               \/ cache_lock # t /\ pc[cache_lock] \in C26_Locked

\* A step that reads the cache into a thread's frame or changes the cache
\* is taken by the holder of the lock, inside its with block.
C26_AccessUnderLock ==
    /\ dns_cache'["url_analyzer"] # dns_cache["url_analyzer"] =>
           /\ cache_lock \in Callers
           /\ pc[cache_lock] = "set_cache_locked"
           /\ \A k \in Keys :
                  dns_cache'["url_analyzer"][k] # dns_cache["url_analyzer"][k] =>
                      k = FrameKey(cache_lock)
    /\ \A t \in Callers :
           (pc[t] \in { "get_cache", "get_cache_locked" }
               /\ pc'[t] \in { "return", "resolve" }) =>
               /\ pc[t] = "get_cache_locked"
               /\ cache_lock = t
               /\ frame'[t].cached = dns_cache["url_analyzer"][FrameKey(t)]

C26_CacheAccessOnlyUnderLock == []C26_LockState /\ [][C26_AccessUnderLock]_vars

\* One thread's query is in flight while the other holds the lock to look up
\* another key.
C26_Witness ==
    /\ pc[1] = "in_flight"
    /\ pc[2] = "get_cache_locked"
    /\ cache_lock = 2
    /\ FrameKey(1) # FrameKey(2)
    /\ dns_cache["url_analyzer"][FrameKey(2)] # PyNone


(***************************************************************************)
(* C27: the overall score of calculate_comprehensive_phishing_score is     *)
(* strictly below 8 for every input: the calculators return at most 10, 8, *)
(* 10, 9.5, 10, 5.5, 3.5, 4.5, 7, 3.5, 10 and 10, which the weights turn   *)
(* into at most 7.335, so the risk level CRITICAL is never returned.       *)
(***************************************************************************)

\* The largest values of the statement, in hundredths.
C27_ListedMaxima ==
    [ attachment_score |-> 1000, authentication_score |-> 800,
      header_score |-> 1000, domain_score |-> 950, url_score |-> 1000,
      infrastructure_score |-> 550, mime_score |-> 350, timing_score |-> 450,
      metadata_score |-> 700, ip_analysis_score |-> 350,
      url_security_score |-> 1000, transformer_score |-> 1000 ]

C27_OverallStaysBelowEight ==
    /\ \A c \in Components : \A v \in ScoreRange[c] : v <= C27_ListedMaxima[c]
    /\ \A c \in Components : scored[c] <= C27_ListedMaxima[c]
    /\ overall # NoResult =>
           /\ ~FloatLess(WeightedSum(C27_ListedMaxima), overall.raw)
           /\ ~FloatAtLeast(overall.raw, 8)
           /\ overall.overall_score < 800
           /\ overall.risk_level # "CRITICAL"

\* Every calculator but the one of the attachments returned its largest
\* value and the weighted sum has been taken.
C27_Witness ==
    /\ overall # NoResult
    /\ \A c \in Components \ { "attachment_score" } : scored[c] = C27_ListedMaxima[c]
    /\ overall.overall_score = 654
    /\ overall.risk_level = "HIGH"


(***************************************************************************)
(* C28: every report analyze_url produces has a score from 0 to 10 and a   *)
(* verdict fixed by the final score alone, whether the DNS checks were     *)
(* skipped or made: Safe exactly for a score up to 2, Suspicious exactly   *)
(* for 3 to 5, Phishing exactly for 6 or more; and the DNS checks are      *)
(* skipped only when the checks without DNS alone reach 6.                 *)
(***************************************************************************)

C28_FastScore == FastChecks(urlparse(urls[1]).scheme, get_domain(urls[1])).score

\* No check of the call reached the cache: the DNS checks were skipped.
C28_Skipped == dns_cache["url_analyzer"] = EmptyCache

C28_VerdictFollowsFinalScore ==
    batch_pc = "returned" =>
        LET report == reports[1]
        IN  /\ report.score \in 0..10
            /\ report.verdict \in { "Safe", "Suspicious", "Phishing" }
            /\ report.verdict = "Safe" <=> report.score <= 2
            /\ report.verdict = "Suspicious" <=> report.score \in 3..5
            /\ report.verdict = "Phishing" <=> report.score >= 6
            /\ C28_Skipped <=> C28_FastScore >= 6
            /\ ~C28_Skipped => report.score >= C28_FastScore
            /\ report = analyze_url(urls[1],
                                    ResolvedChecks(resolver, get_domain(urls[1]))).report

\* The DNS checks were skipped for a URL whose checks without DNS gave 7.
C28_Witness ==
    /\ batch_pc = "returned"
    /\ C28_Skipped
    /\ reports[1].score = 7
    /\ reports[1].verdict = "Phishing"

\* The largest score: the DNS checks were made and each added its penalty.
C28_WitnessTen ==
    /\ batch_pc = "returned"
    /\ ~C28_Skipped
    /\ calls_made = 0
    /\ \A k \in Kinds :
           dns_cache["url_analyzer"][CacheKey(k, reports[1].domain)] = PyFalse
    /\ reports[1].score = 10


(***************************************************************************)
(* C29: when no worker raises, analyze_urls_parallel returns exactly one   *)
(* report per input URL under every scheduling of the workers, of which at *)
(* most MAX_WORKERS run at once: the report URLs are the input URLs as     *)
(* multisets, and the call returns only after every submitted analysis     *)
(* has finished.                                                           *)
(***************************************************************************)

C29_NoWorkerRaised ==
    \A i \in 1..Len(urls) :
        ~analyze_url(urls[i], ResolvedChecks(resolver, get_domain(urls[i]))).raised

\* How often url is in the list, and how often among the URLs of the reports.
C29_Given(url) == Cardinality({ i \in 1..Len(urls) : urls[i] = url })

C29_Reported(url) == Cardinality({ i \in 1..Len(reports) : reports[i].url = url })

C29_OneReportPerUrl ==
    /\ Cardinality({ j \in DOMAIN futures : futures[j].state = "running" }) <= MAX_WORKERS
    /\ \A url \in ScoredUrls : C29_Reported(url) <= C29_Given(url)
    /\ (batch_pc = "returned" /\ C29_NoWorkerRaised) =>
           /\ Len(reports) = Len(urls)
           /\ \A url \in ScoredUrls : C29_Reported(url) = C29_Given(url)
           /\ \A i \in 1..Len(reports) :
                  reports[i] = analyze_url(reports[i].url,
                                   ResolvedChecks(resolver, reports[i].domain)).report
           /\ Len(urls) > 1 =>
                  /\ \A i \in 1..Len(urls) : futures[i].state = "finished"
                  /\ yielded = 1..Len(urls)
           /\ \A t \in DOMAIN pc : pc[t] = "idle"

\* A list longer than the pool has returned, its reports in an order other
\* than the order of the list.
C29_Witness ==
    /\ batch_pc = "returned"
    /\ Len(urls) = MaxPoolUrls
    /\ Len(reports) = Len(urls)
    /\ \E i \in 1..Len(urls) : reports[i].url # urls[i]

\* MAX_WORKERS calls are running and one more is waiting in the queue.
C29_WitnessPoolFull ==
    /\ Cardinality({ j \in DOMAIN futures : futures[j].state = "running" }) = MAX_WORKERS
    /\ \E j \in DOMAIN futures : futures[j].state = "pending"


(***************************************************************************)
(* C30: in attachment_analyzer, for every filename, check_double_extension *)
(* implies check_dangerous_extension (and excludes check_macro_extension), *)
(* so an attachment flagged double_extension scores at least 65 and is     *)
(* MALICIOUS, the double-extension trigger never fires on its own, and no  *)
(* attachment scores above 88.                                             *)
(***************************************************************************)

C30_DoubleExtensionImpliesDangerous ==
    attachment_result # NoResult =>
        /\ check_double_extension(attachment.filename) =>
               /\ check_dangerous_extension(attachment.filename)
               /\ ~check_macro_extension(attachment.filename)
               /\ attachment_result.risk_score >= 65
               /\ attachment_result.verdict = "MALICIOUS"
        /\ attachment_result.risk_score <= 88

\* What holds of it: a double extension excludes a macro extension, with a
\* dangerous extension it makes at least 65 and MALICIOUS, and no score is
\* above 88.
C30_ScoreStaysBelowCap ==
    attachment_result # NoResult =>
        /\ check_double_extension(attachment.filename) =>
               ~check_macro_extension(attachment.filename)
        /\ (/\ check_double_extension(attachment.filename)
            /\ check_dangerous_extension(attachment.filename)) =>
               /\ attachment_result.risk_score >= 65
               /\ attachment_result.verdict = "MALICIOUS"
        /\ ~(check_dangerous_extension(attachment.filename)
             /\ check_macro_extension(attachment.filename))
        /\ attachment_result.risk_score <= 88

\* The double-extension trigger on its own: the name ..exe.
C30_DoubleExtensionAlone ==
    /\ attachment_result # NoResult
    /\ check_double_extension(attachment.filename)
    /\ ~check_dangerous_extension(attachment.filename)
    /\ attachment_result.risk_score = 20
    /\ attachment_result.verdict = "SUSPICIOUS"

=============================================================================
